---- MODULE Spec2Model ----
(***************************************************************************)
(* A model of roshinjimmy/pr-review-agent:                                 *)
(*   - parse_unified_diff (backend/src/utils/diff_parser.py), the single   *)
(*     forward pass over the lines of a unified diff;                      *)
(*   - run_review_pipeline (backend/src/services/orchestrator.py), the     *)
(*     fan-out of four review agents on a thread pool, the join, the       *)
(*     extraction of findings and their deduplication;                     *)
(*   - run_review_pipeline (src/services/orchestrator.py), the sequential  *)
(*     crew whose output is parsed into the comments returned;             *)
(*   - fetch_pr_diff (src/services/github_service.py), the download of a   *)
(*     pull request's diff and the mapping of its failures to errors.      *)
(* Strings are TLA+ strings; an Optional value is a sequence of length at  *)
(* most one (<<>> is None, <<v>> is the value v).                          *)
(***************************************************************************)
EXTENDS Integers, Sequences, FiniteSets, TLC

\* ------------------------------------------------------------------------
\* Bounds of the model
\* ------------------------------------------------------------------------

\* The longest input, in lines, the parser is run on.
MaxLines == 4

\* The longest input, in lines, of a call in a sequence of calls of the parser.
MaxCallLines == 3

\* The longest input, in lines, of the texts of one file with several hunks.
MaxHunkLines == 5

\* ------------------------------------------------------------------------
\* Optional values
\* ------------------------------------------------------------------------

None == <<>>

Some(v) == <<v>>

IsNone(o) == Len(o) = 0

Get(o) == o[1]

\* ------------------------------------------------------------------------
\* Python string operations used by the parser
\* ------------------------------------------------------------------------

\* s[i], 1-based.
CharAt(s, i) == SubSeq(s, i, i)

\* s[n:], 0-based as in Python: drops the first n characters.
DropFirst(s, n) == IF n >= Len(s) THEN "" ELSE SubSeq(s, n + 1, Len(s))

\* str.startswith
StartsWith(s, p) == Len(s) >= Len(p) /\ SubSeq(s, 1, Len(p)) = p

\* The whitespace str.strip() and str.split() act on, as far as a line that
\* str.splitlines() returned can hold it.
IsSpace(c) == c \in {" ", "\t"}

RECURSIVE LStrip(_)
LStrip(s) == IF Len(s) > 0 /\ IsSpace(CharAt(s, 1)) THEN LStrip(Tail(s)) ELSE s

RECURSIVE RStrip(_)
RStrip(s) ==
    IF Len(s) > 0 /\ IsSpace(CharAt(s, Len(s)))
    THEN RStrip(SubSeq(s, 1, Len(s) - 1)) ELSE s

\* str.strip()
Strip(s) == RStrip(LStrip(s))

\* str.find(sub), 1-based; 0 when sub does not occur in s at or after from.
FindFrom(s, sub, from) ==
    LET hits == {k \in from..(Len(s) - Len(sub) + 1) :
                    SubSeq(s, k, k + Len(sub) - 1) = sub}
    IN  IF hits = {} THEN 0 ELSE CHOOSE k \in hits : \A m \in hits : k <= m

\* s.split(sep): the pieces of s between the occurrences of sep.
RECURSIVE SplitOn(_, _)
SplitOn(s, sep) ==
    LET at == FindFrom(s, sep, 1) IN
    IF at = 0 THEN <<s>>
    ELSE <<SubSeq(s, 1, at - 1)>> \o SplitOn(DropFirst(s, at + Len(sep) - 1), sep)

\* The length of the longest prefix of s without whitespace.
RECURSIVE WordLen(_)
WordLen(s) ==
    IF Len(s) = 0 \/ IsSpace(CharAt(s, 1)) THEN 0 ELSE 1 + WordLen(Tail(s))

\* s.split(): the maximal runs of non-whitespace of s.
RECURSIVE SplitWords(_)
SplitWords(s) ==
    LET t == LStrip(s) IN
    IF Len(t) = 0 THEN <<>>
    ELSE LET n == WordLen(t) IN <<SubSeq(t, 1, n)>> \o SplitWords(DropFirst(t, n))

Digits == <<"0", "1", "2", "3", "4", "5", "6", "7", "8", "9">>

IsDigit(c) == \E d \in 1..10 : Digits[d] = c

DigitVal(c) == (CHOOSE d \in 1..10 : Digits[d] = c) - 1

\* Whether s is digits, single underscores allowed between two digits.
RECURSIVE IsDigitRun(_, _)
IsDigitRun(s, afterDigit) ==
    IF Len(s) = 0 THEN afterDigit
    ELSE IF IsDigit(CharAt(s, 1)) THEN IsDigitRun(Tail(s), TRUE)
    ELSE IF CharAt(s, 1) = "_" THEN afterDigit /\ IsDigitRun(Tail(s), FALSE)
    ELSE FALSE

RECURSIVE DigitRunVal(_, _)
DigitRunVal(s, acc) ==
    IF Len(s) = 0 THEN acc
    ELSE IF CharAt(s, 1) = "_" THEN DigitRunVal(Tail(s), acc)
    ELSE DigitRunVal(Tail(s), 10 * acc + DigitVal(CharAt(s, 1)))

HasSign(s) == Len(s) > 0 /\ CharAt(s, 1) \in {"+", "-"}

\* int(s) on a string without surrounding whitespace: None when int raises
\* ValueError, else the value.
ParseInt(s) ==
    LET body == IF HasSign(s) THEN Tail(s) ELSE s IN
    IF ~IsDigitRun(body, FALSE) THEN None
    ELSE IF HasSign(s) /\ CharAt(s, 1) = "-" THEN Some(0 - DigitRunVal(body, 0))
    ELSE Some(DigitRunVal(body, 0))

\* ------------------------------------------------------------------------
\* parse_unified_diff: the change model
\* ------------------------------------------------------------------------

LineChange(type, line, content) ==
    [type |-> type, line |-> line, content |-> content]

FileDiff(file, changes) == [file |-> file, changes |-> changes]

\* Mutant of FilePathOf: /dev/null is a path like any other.
FilePathOfNoSentinel(line) ==
    LET path_part == Strip(DropFirst(line, 4)) IN
    IF StartsWith(path_part, "a/") \/ StartsWith(path_part, "b/")
    THEN DropFirst(path_part, 2)
    ELSE path_part

\* Mutant of FilePathOf: the text after "+++ " is taken with its whitespace.
FilePathOfUnstripped(line) ==
    LET path_part == DropFirst(line, 4) IN
    IF path_part = "/dev/null" THEN "<deleted-file>"
    ELSE IF StartsWith(path_part, "a/") \/ StartsWith(path_part, "b/")
         THEN DropFirst(path_part, 2)
         ELSE path_part

\* The file path a "+++ " line gives.
FilePathOf(line) ==
    LET path_part == Strip(DropFirst(line, 4)) IN
    IF path_part = "/dev/null" THEN "<deleted-file>"
    ELSE IF StartsWith(path_part, "a/") \/ StartsWith(path_part, "b/")
         THEN DropFirst(path_part, 2)
         ELSE path_part

\* The tokens of a hunk header that start with "+".
RECURSIVE PlusTokens(_)
PlusTokens(parts) ==
    IF Len(parts) = 0 THEN <<>>
    ELSE IF StartsWith(Head(parts), "+")
         THEN <<Head(parts)>> \o PlusTokens(Tail(parts))
         ELSE PlusTokens(Tail(parts))

Returned(v) == [exc |-> "", val |-> v]

Raised(e) == [exc |-> e, val |-> 0]

\* The body of the try block of a hunk header: the new-range start, or the
\* exception an index out of range or int() raises.
HunkStart(line) ==
    LET pieces == SplitOn(line, "@@") IN
    IF Len(pieces) < 2 THEN Raised("IndexError")
    ELSE LET plus == PlusTokens(SplitWords(Strip(pieces[2]))) IN
         IF Len(plus) = 0 THEN Raised("IndexError")
         ELSE LET n == ParseInt(SplitOn(DropFirst(plus[1], 1), ",")[1]) IN
              IF IsNone(n) THEN Raised("ValueError") ELSE Returned(Get(n))

\* Mutant of HandledByExcept: except IndexError.
HandledByExceptIndexError(e) == e = "IndexError"

\* except Exception: the exceptions the handler of the try block takes.
HandledByExcept(e) == e \in {"IndexError", "ValueError"}

\* ------------------------------------------------------------------------
\* run_review_pipeline: JSON values and the texts the agents return
\* ------------------------------------------------------------------------

\* A JSON value as json.loads returns it, tagged with its Python type.
JNull == [t |-> "NoneType"]

JInt(n) == [t |-> "int", v |-> n]

JStr(str) == [t |-> "str", v |-> str]

JList(items) == [t |-> "list", v |-> items]

\* A dict: fields is a record, its DOMAIN the keys.
JDict(fields) == [t |-> "dict", v |-> fields]

\* A finding as the task descriptions ask for it.
Finding(file, line, severity, issue, source) ==
    JDict([file |-> JStr(file), line |-> JInt(line), severity |-> JStr(severity),
           issue |-> JStr(issue), recommendation |-> JStr("fix"),
           source |-> JStr(source)])

\* Agent outputs. TextInjection and JsonInjectionLowAndNaming hold findings of
\* the same file, line and issue that differ in severity and source.
TextInjection ==
    "[{\"file\":\"app.py\",\"line\":15,\"severity\":\"critical\",\"issue\":\"SQL injection\",\"recommendation\":\"fix\",\"source\":\"security\"}]"

JsonInjectionLowAndNaming ==
    "[{\"file\":\"app.py\",\"line\":15,\"severity\":\"low\",\"issue\":\"SQL injection\",\"recommendation\":\"fix\",\"source\":\"logic\"},{\"file\":\"app.py\",\"line\":16,\"severity\":\"info\",\"issue\":\"Bad name\",\"recommendation\":\"fix\",\"source\":\"readability\"}]"

\* The fence of a code block, three grave accents (U+0060). A TLA+ string
\* cannot hold that character: the apostrophe stands for it in every text.
Fence == "'''"

TextFenced ==
    "Findings:\n" \o Fence \o "json\n" \o JsonInjectionLowAndNaming \o "\n"
        \o Fence \o "\nDone."

TextComments ==
    "{\"comments\":[{\"file\":\"db.py\",\"line\":7,\"severity\":\"warning\",\"issue\":\"N+1 query\",\"recommendation\":\"fix\",\"source\":\"performance\"}]}"

TextNoFindings == "[]"

TextProse == "No issues found."

\* JSON, but no collection of finding records.
TextNumbers == "[1]"

\* A JSON object whose 'comments' is no array.
TextCommentsNumber == "{\"comments\":5}"

\* Two issues of one line that agree in their first 50 characters and differ
\* after them.
IssueInQuery == "User input is concatenated into the SQL statement in query()"

IssueInLookup == "User input is concatenated into the SQL statement in lookup()"

TextLongIssues ==
    "[{\"file\":\"db.py\",\"line\":9,\"severity\":\"error\",\"issue\":\"User input is concatenated into the SQL statement in query()\",\"recommendation\":\"fix\",\"source\":\"security\"},{\"file\":\"db.py\",\"line\":9,\"severity\":\"high\",\"issue\":\"User input is concatenated into the SQL statement in lookup()\",\"recommendation\":\"fix\",\"source\":\"security\"}]"

\* An issue that agrees with IssueInQuery in its first 49 characters and
\* differs from it in the 50th.
IssueInStatements == "User input is concatenated into the SQL statements of query()"

\* Two findings of one line whose issues differ in their 50th character.
TextIssuesDifferAt50 ==
    "[{\"file\":\"db.py\",\"line\":9,\"severity\":\"error\",\"issue\":\"User input is concatenated into the SQL statement in query()\",\"recommendation\":\"fix\",\"source\":\"security\"},{\"file\":\"db.py\",\"line\":9,\"severity\":\"high\",\"issue\":\"User input is concatenated into the SQL statements of query()\",\"recommendation\":\"fix\",\"source\":\"logic\"}]"

\* Two findings of one file and issue, both without a 'line' key.
TextLineOmitted ==
    "[{\"file\":\"db.py\",\"severity\":\"warning\",\"issue\":\"Missing index\",\"recommendation\":\"fix\",\"source\":\"performance\"},{\"file\":\"db.py\",\"severity\":\"info\",\"issue\":\"Missing index\",\"recommendation\":\"fix\",\"source\":\"logic\"}]"

\* Two findings of one file and issue, both with "line": null.
TextLineNull ==
    "[{\"file\":\"db.py\",\"line\":null,\"severity\":\"error\",\"issue\":\"Missing index\",\"recommendation\":\"fix\",\"source\":\"security\"},{\"file\":\"db.py\",\"line\":null,\"severity\":\"low\",\"issue\":\"Missing index\",\"recommendation\":\"fix\",\"source\":\"readability\"}]"

\* A finding whose severity is none of the eight levels.
TextSeverityBlocker ==
    "[{\"file\":\"app.py\",\"line\":3,\"severity\":\"blocker\",\"issue\":\"Hard-coded password\",\"recommendation\":\"fix\",\"source\":\"security\"}]"

\* A finding without a 'line' key.
FindingNoLine(file, severity, issue, source) ==
    JDict([file |-> JStr(file), severity |-> JStr(severity),
           issue |-> JStr(issue), recommendation |-> JStr("fix"),
           source |-> JStr(source)])

\* A finding with "line": null.
FindingNullLine(file, severity, issue, source) ==
    JDict([file |-> JStr(file), line |-> JNull, severity |-> JStr(severity),
           issue |-> JStr(issue), recommendation |-> JStr("fix"),
           source |-> JStr(source)])

OutputPool ==
    {TextInjection, TextFenced, TextComments, TextNoFindings, TextProse,
     TextNumbers, TextCommentsNumber, TextLongIssues}

\* Outputs of the crew of the sequential pipeline.
TextEmptyComments == "{\"comments\":[]}"

TextEmptyObject == "{}"

TextNull == "null"

\* An object whose 'comments' holds two findings of one file, line and issue.
TextDuplicateComments ==
    "{\"comments\":[{\"file\":\"app.py\",\"line\":15,\"severity\":\"low\",\"issue\":\"SQL injection\",\"recommendation\":\"fix\",\"source\":\"logic\"},{\"file\":\"app.py\",\"line\":15,\"severity\":\"critical\",\"issue\":\"SQL injection\",\"recommendation\":\"fix\",\"source\":\"security\"}]}"

JSONDecodeError == [t |-> "JSONDecodeError"]

\* json.loads on the texts that reach it: the value, or JSONDecodeError.
JsonLoads(text) ==
    CASE text = TextInjection ->
           JList(<<Finding("app.py", 15, "critical", "SQL injection", "security")>>)
      [] text = JsonInjectionLowAndNaming ->
           JList(<<Finding("app.py", 15, "low", "SQL injection", "logic"),
                   Finding("app.py", 16, "info", "Bad name", "readability")>>)
      [] text = TextComments ->
           JDict([comments |->
                    JList(<<Finding("db.py", 7, "warning", "N+1 query", "performance")>>)])
      [] text = TextNoFindings -> JList(<<>>)
      [] text = TextNumbers -> JList(<<JInt(1)>>)
      [] text = TextCommentsNumber -> JDict([comments |-> JInt(5)])
      [] text = TextLongIssues ->
           JList(<<Finding("db.py", 9, "error", IssueInQuery, "security"),
                   Finding("db.py", 9, "high", IssueInLookup, "security")>>)
      [] text = TextIssuesDifferAt50 ->
           JList(<<Finding("db.py", 9, "error", IssueInQuery, "security"),
                   Finding("db.py", 9, "high", IssueInStatements, "logic")>>)
      [] text = TextSeverityBlocker ->
           JList(<<Finding("app.py", 3, "blocker", "Hard-coded password", "security")>>)
      [] text = TextLineOmitted ->
           JList(<<FindingNoLine("db.py", "warning", "Missing index", "performance"),
                   FindingNoLine("db.py", "info", "Missing index", "logic")>>)
      [] text = TextLineNull ->
           JList(<<FindingNullLine("db.py", "error", "Missing index", "security"),
                   FindingNullLine("db.py", "low", "Missing index", "readability")>>)
      [] text = TextEmptyComments -> JDict([comments |-> JList(<<>>)])
      [] text = TextEmptyObject -> JDict([x \in {} |-> JNull])
      [] text = TextNull -> JNull
      [] text = TextDuplicateComments ->
           JDict([comments |->
                    JList(<<Finding("app.py", 15, "low", "SQL injection", "logic"),
                            Finding("app.py", 15, "critical", "SQL injection",
                                    "security")>>)])
      [] OTHER -> JSONDecodeError

\* ------------------------------------------------------------------------
\* run_review_pipeline: extraction
\* ------------------------------------------------------------------------

\* The characters \s of a regular expression matches.
IsReSpace(c) == c \in {" ", "\t", "\n", "\r", "\f"}

\* The last position of the run of \s characters of s that starts at from
\* (from - 1 when s has no \s character there).
RECURSIVE SpaceRunEnd(_, _)
SpaceRunEnd(s, from) ==
    IF from <= Len(s) /\ IsReSpace(CharAt(s, from))
    THEN SpaceRunEnd(s, from + 1) ELSE from - 1

\* \s*\n(.*?)\n<fence> tried with the \n at position q and then, backtracking, at
\* the line feeds before q down to lo: the group of the first that matches.
RECURSIVE MatchAfterFence(_, _, _)
MatchAfterFence(s, lo, q) ==
    IF q < lo THEN None
    ELSE IF CharAt(s, q) = "\n" /\ FindFrom(s, "\n" \o Fence, q + 1) # 0
         THEN Some(SubSeq(s, q + 1, FindFrom(s, "\n" \o Fence, q + 1) - 1))
         ELSE MatchAfterFence(s, lo, q - 1)

\* re.search(r"<fence>json\s*\n(.*?)\n<fence>", s, re.DOTALL): group 1 of the leftmost
\* match at or after from, None when there is no match.
RECURSIVE FencedJson(_, _)
FencedJson(s, from) ==
    LET at == FindFrom(s, Fence \o "json", from) IN
    IF at = 0 THEN None
    ELSE LET m == MatchAfterFence(s, at + 7, SpaceRunEnd(s, at + 7)) IN
         IF IsNone(m) THEN FencedJson(s, at + 1) ELSE m

\* json_str: the fenced block when there is one, else the whole output.
JsonStrOf(result_str) ==
    LET json_match == FencedJson(result_str, 1) IN
    IF IsNone(json_match) THEN result_str ELSE Get(json_match)

\* The keys of a dict as a sequence (a dict iterates in insertion order, which
\* a record does not keep: exact for the dicts of at most one key).
RECURSIVE KeysOf(_)
KeysOf(keys) ==
    IF keys = {} THEN <<>>
    ELSE LET k == CHOOSE x \in keys : TRUE IN <<JStr(k)>> \o KeysOf(keys \ {k})

\* What list.extend(value) appends: the elements of a list, the characters of
\* a str, the keys of a dict; a value that is not iterable raises TypeError.
Iterated(value) ==
    IF value.t = "list" THEN Returned(value.v)
    ELSE IF value.t = "str"
         THEN Returned([k \in 1..Len(value.v) |-> JStr(CharAt(value.v, k))])
    ELSE IF value.t = "dict" THEN Returned(KeysOf(DOMAIN value.v))
    ELSE Raised("TypeError")

\* What one agent's output adds to all_comments: the elements of a parsed list,
\* the 'comments' of a parsed dict, nothing otherwise; the exception extend
\* raises when 'comments' is not iterable.
ExtractOne(result_str) ==
    LET parsed == JsonLoads(JsonStrOf(result_str)) IN
    IF parsed.t = "JSONDecodeError" THEN Returned(<<>>)
    ELSE IF parsed.t = "list" THEN Returned(parsed.v)
    ELSE IF parsed.t = "dict" /\ "comments" \in DOMAIN parsed.v
         THEN Iterated(parsed.v.comments)
    ELSE Returned(<<>>)

\* The loop over agent_results.items(): all_comments, or the first exception.
RECURSIVE ExtractAll(_)
ExtractAll(results) ==
    IF Len(results) = 0 THEN Returned(<<>>)
    ELSE LET first == ExtractOne(Head(results)[2]) IN
         IF first.exc # "" THEN first
         ELSE LET rest == ExtractAll(Tail(results)) IN
              IF rest.exc # "" THEN rest ELSE Returned(first.val \o rest.val)

\* ------------------------------------------------------------------------
\* run_review_pipeline: deduplication
\* ------------------------------------------------------------------------

\* dict.get(key, default)
DictGet(d, key, default) == IF key \in DOMAIN d.v THEN d.v[key] ELSE default

\* Mutant of Truncate: the whole string.
TruncateNothing(s, n) == s

\* Mutant of Truncate: one character less.
TruncateOneLess(s, n) == IF Len(s) <= n - 1 THEN s ELSE SubSeq(s, 1, n - 1)

\* s[:n]
Truncate(s, n) == IF Len(s) <= n THEN s ELSE SubSeq(s, 1, n)

\* The length of the issue prefix of the dedup key.
IssuePrefixLen == 50

\* The dedup key of a comment, or the exception building it raises: a comment
\* that is no dict has no get, an issue that is no str cannot be the key's
\* prefix, a line that is a list or a dict cannot be hashed.
KeyOf(comment) ==
    IF comment.t # "dict" THEN Raised("AttributeError")
    ELSE LET file == DictGet(comment, "file", JStr(""))
             line == DictGet(comment, "line", JInt(0))
             issue == DictGet(comment, "issue", JStr(""))
         IN  IF issue.t # "str" THEN Raised("TypeError")
             ELSE IF file.t \in {"list", "dict"} \/ line.t \in {"list", "dict"}
                  THEN Raised("TypeError")
             ELSE Returned(<<file, line, JStr(Truncate(issue.v, IssuePrefixLen))>>)

\* Mutant of KeepComment: every comment is kept.
KeepCommentAlways(seen, key) == TRUE

\* if key not in seen: seen.add(key); comments.append(comment)
KeepComment(seen, key) == key \notin seen

\* Mutant of CommentsAppend: the comment is put in front.
CommentsInsertFirst(kept, comment) == <<comment>> \o kept

\* comments.append(comment)
CommentsAppend(kept, comment) == Append(kept, comment)

\* The dedup loop from the state (seen, comments) on: the comments, or the
\* first exception.
RECURSIVE DedupFrom(_, _, _)
DedupFrom(all_comments, seen, kept) ==
    IF Len(all_comments) = 0 THEN Returned(kept)
    ELSE LET key == KeyOf(Head(all_comments)) IN
         IF key.exc # "" THEN key
         ELSE IF KeepComment(seen, key.val)
              THEN DedupFrom(Tail(all_comments), seen \cup {key.val},
                             CommentsAppend(kept, Head(all_comments)))
              ELSE DedupFrom(Tail(all_comments), seen, kept)

Dedup(all_comments) == DedupFrom(all_comments, {}, <<>>)

\* ------------------------------------------------------------------------
\* State
\* ------------------------------------------------------------------------

VARIABLES
    lines,          \* parser: diff_text.splitlines(), as far as it was read
    i,              \* parser: the loop index, 0-based
    file_diffs,     \* parser: the output list
    current_file,   \* parser: Optional FileDiff
    new_line_no,    \* parser: Optional Int, the new-file line cursor
    parser_pc,      \* parser: "loop", "done" after return, "raised"
    earlier,        \* history: Optional record of a call that returned before
    structured_diff,  \* pipeline: the argument of run_review_pipeline
    diff_context,     \* pipeline: the rendered text
    futures,          \* pipeline: agent type -> the Future of its task
    task_context,     \* pipeline: agent type -> the diff_context submitted
    agent_results,    \* pipeline: the dict, as <<agent type, text>> in insertion order
    all_comments,     \* pipeline: the findings extracted
    comments,         \* pipeline: the findings kept
    overtaken,        \* history: a task ended before one submitted earlier did
    pipeline_pc,      \* pipeline: "idle", "render", "submit", "collect",
                      \*   "extract", "dedup", "done" after return, "raised"
    result_str,       \* sequential pipeline: str(result) of the crew
    json_str,         \* sequential pipeline: the text given to json.loads
    parsed,           \* sequential pipeline: Optional JSON value
    seq_comments,     \* sequential pipeline: Optional JSON value, comments
    seq_exc,          \* sequential pipeline: the exception raised, "" if none
    seq_pc,           \* sequential pipeline: "idle", "kickoff", "search",
                      \*   "loads", "get", "done" after return, "raised"
    response,         \* fetch_pr_diff: Optional response of client.get
    fetch_exc,        \* fetch_pr_diff: the exception raised in the try, or ""
    fetch_result,     \* fetch_pr_diff: Optional outcome, returned or raised
    fetch_pc          \* fetch_pr_diff: "idle", "get", "raise_for_status",
                      \*   "check_empty", "check_binary", "except", "done"

parserVars == <<lines, i, file_diffs, current_file, new_line_no, parser_pc,
                earlier>>

pipelineVars == <<structured_diff, diff_context, futures, task_context,
                  agent_results, all_comments, comments, overtaken,
                  pipeline_pc>>

sequentialVars == <<result_str, json_str, parsed, seq_comments, seq_exc, seq_pc>>

fetchVars == <<response, fetch_exc, fetch_result, fetch_pc>>

serviceVars == <<sequentialVars, fetchVars>>

vars == <<parserVars, pipelineVars, serviceVars>>

\* The four review agents, in the order their tasks are submitted.
WorkerOrder == <<"readability", "logic", "performance", "security">>

Workers == {WorkerOrder[k] : k \in 1..Len(WorkerOrder)}

\* The state in which run_review_pipeline is not running.
PipelineIdle ==
    /\ structured_diff = [files |-> <<>>]
    /\ diff_context = ""
    /\ futures = [w \in Workers |-> [status |-> "unsubmitted", out |-> ""]]
    /\ task_context = [w \in Workers |-> ""]
    /\ agent_results = <<>>
    /\ all_comments = <<>>
    /\ comments = <<>>
    /\ overtaken = FALSE
    /\ pipeline_pc = "idle"

\* The state in which the sequential run_review_pipeline is not running.
SequentialIdle ==
    /\ result_str = ""
    /\ json_str = ""
    /\ parsed = None
    /\ seq_comments = None
    /\ seq_exc = ""
    /\ seq_pc = "idle"

\* The state in which fetch_pr_diff is not running.
FetchIdle ==
    /\ response = None
    /\ fetch_exc = ""
    /\ fetch_result = None
    /\ fetch_pc = "idle"

\* The state in which parse_unified_diff is not running.
ParserIdle ==
    /\ lines = <<>>
    /\ i = 0
    /\ file_diffs = <<>>
    /\ current_file = None
    /\ new_line_no = None
    /\ parser_pc = "idle"
    /\ earlier = None

\* ------------------------------------------------------------------------
\* parse_unified_diff: the lines the inputs are made of
\* ------------------------------------------------------------------------

LinePool ==
    { "diff --git a/x b/x",
      "+++ b/x",
      "+++ /dev/null",
      "+++ b//dev/null",
      "@@ -1,2 +3,4 @@",
      "@@ -9 +1 @@ f",
      "@@ -1 +x @@",
      "@@ -0,0 +0,0 @@",
      "+++  b/b/x ",
      "+a",
      "-b",
      " c",
      "\\ No newline at end of file",
      "" }

\* ------------------------------------------------------------------------
\* parse_unified_diff: one action per branch of the loop body
\* ------------------------------------------------------------------------

ParserInit ==
    /\ lines = <<>>
    /\ i = 0
    /\ file_diffs = <<>>
    /\ current_file = None
    /\ new_line_no = None
    /\ parser_pc = "loop"
    /\ earlier = None
    /\ PipelineIdle
    /\ SequentialIdle
    /\ FetchIdle

\* line.startswith("diff --git ")
IsFileBoundary(line) == StartsWith(line, "diff --git ")

\* line.startswith("+++ "), reached when the line is no file boundary
IsNewFileMarker(line) == ~IsFileBoundary(line) /\ StartsWith(line, "+++ ")

\* line.startswith("@@ ") and current_file is not None
IsHunkHeader(line) ==
    /\ ~IsFileBoundary(line)
    /\ ~IsNewFileMarker(line)
    /\ StartsWith(line, "@@ ")
    /\ ~IsNone(current_file)

\* current_file is not None and new_line_no is not None and line
IsHunkLine(line) ==
    /\ ~IsFileBoundary(line)
    /\ ~IsNewFileMarker(line)
    /\ ~IsHunkHeader(line)
    /\ ~IsNone(current_file)
    /\ ~IsNone(new_line_no)
    /\ line # ""

\* line = lines[i] inside while i < len(lines): the line is the next line of the
\* input, or the line at i again when the last iteration left i in place.
ReadLine(line) ==
    /\ parser_pc = "loop"
    /\ IF i < Len(lines)
       THEN line = lines[i + 1] /\ UNCHANGED lines
       ELSE lines' = Append(lines, line)
    /\ UNCHANGED earlier
    /\ UNCHANGED <<pipelineVars, serviceVars>>

\* i += 1
NextIndex(n) == n + 1

\* file_diffs after the open file, if any, was appended.
Finalized == IF IsNone(current_file) THEN file_diffs
             ELSE Append(file_diffs, Get(current_file))

\* Mutant of FileBoundary: the boundary line opens the new file itself.
FileBoundaryOpensFile(line) ==
    /\ ReadLine(line)
    /\ IsFileBoundary(line)
    /\ file_diffs' = Finalized
    /\ current_file' = Some(FileDiff(DropFirst(line, 11), <<>>))
    /\ new_line_no' = None
    /\ i' = NextIndex(i)
    /\ UNCHANGED parser_pc

\* if line.startswith("diff --git "):
FileBoundary(line) ==
    /\ ReadLine(line)
    /\ IsFileBoundary(line)
    /\ file_diffs' = Finalized
    /\ current_file' = None
    /\ new_line_no' = None
    /\ i' = NextIndex(i)
    /\ UNCHANGED parser_pc

\* if line.startswith("+++ "):
NewFileMarker(line) ==
    /\ ReadLine(line)
    /\ IsNewFileMarker(line)
    /\ current_file' = Some(FileDiff(FilePathOf(line), <<>>))
    /\ i' = NextIndex(i)
    /\ UNCHANGED <<file_diffs, new_line_no, parser_pc>>

\* Mutant of CursorAfterFailure: the cursor stays as it was.
CursorAfterFailureKept(cursor) == cursor

\* except Exception: new_line_no = None
CursorAfterFailure(cursor) == None

\* if line.startswith("@@ ") and current_file is not None:
HunkHeader(line) ==
    /\ ReadLine(line)
    /\ IsHunkHeader(line)
    /\ LET r == HunkStart(line) IN
       IF r.exc = ""
       THEN /\ new_line_no' = Some(r.val)
            /\ i' = NextIndex(i)
            /\ UNCHANGED parser_pc
       ELSE IF HandledByExcept(r.exc)
       THEN /\ new_line_no' = CursorAfterFailure(new_line_no)
            /\ i' = NextIndex(i)
            /\ UNCHANGED parser_pc
       ELSE /\ parser_pc' = "raised"
            /\ UNCHANGED <<new_line_no, i>>
    /\ UNCHANGED <<file_diffs, current_file>>

\* current_file.changes.append(change)
Record(change) ==
    current_file' =
        Some(FileDiff(Get(current_file).file,
                      Append(Get(current_file).changes, change)))

\* LineChange(type="addition", line=new_line_no, content=content)
AdditionChange(cursor, content) == LineChange("addition", Some(cursor), content)

\* Mutant of DeletionChange: a deletion is recorded at the cursor.
DeletionChangeAtCursor(cursor, content) ==
    LineChange("deletion", Some(cursor), content)

\* LineChange(type="deletion", line=None, content=content)
DeletionChange(cursor, content) == LineChange("deletion", None, content)

\* Mutant of ContextChange: a context line is recorded as an addition.
ContextChangeAsAddition(cursor, content) ==
    LineChange("addition", Some(cursor), content)

\* LineChange(type="context", line=new_line_no, content=content)
ContextChange(cursor, content) == LineChange("context", Some(cursor), content)

\* new_line_no += 1
Advance(n) == n + 1

\* Mutant of AfterDeletion: a deletion advances the cursor.
AfterDeletionAdvances(n) == n + 1

\* deletions do not advance new_line_no
AfterDeletion(n) == n

\* Mutant of IsContextPrefix: the last branch is an else, it takes every
\* other first character.
IsContextPrefixAny(prefix) == TRUE

\* elif prefix == " " or prefix == "\t":
IsContextPrefix(prefix) == prefix = " " \/ prefix = "\t"

\* if current_file is not None and new_line_no is not None and line:
HunkLine(line) ==
    /\ ReadLine(line)
    /\ IsHunkLine(line)
    /\ IF line = ""
       THEN \* line[0] of an empty line raises IndexError
            /\ parser_pc' = "raised"
            /\ UNCHANGED <<current_file, new_line_no, i>>
       ELSE LET prefix == CharAt(line, 1)
                content == DropFirst(line, 1)
                cursor == Get(new_line_no)
            IN  /\ IF prefix = "+"
                   THEN /\ Record(AdditionChange(cursor, content))
                        /\ new_line_no' = Some(Advance(cursor))
                   ELSE IF prefix = "-"
                   THEN /\ Record(DeletionChange(cursor, content))
                        /\ new_line_no' = Some(AfterDeletion(cursor))
                   ELSE IF IsContextPrefix(prefix)
                   THEN /\ Record(ContextChange(cursor, content))
                        /\ new_line_no' = Some(Advance(cursor))
                   ELSE UNCHANGED <<current_file, new_line_no>>
                /\ i' = NextIndex(i)
                /\ UNCHANGED parser_pc
    /\ UNCHANGED file_diffs

\* No branch takes the line: only i += 1.
SkipLine(line) ==
    /\ ReadLine(line)
    /\ ~IsFileBoundary(line)
    /\ ~IsNewFileMarker(line)
    /\ ~IsHunkHeader(line)
    /\ ~IsHunkLine(line)
    /\ i' = NextIndex(i)
    /\ UNCHANGED <<file_diffs, current_file, new_line_no, parser_pc>>

\* The loop ends (i = len(lines)): the open file is appended, file_diffs returned.
EndOfInput ==
    /\ parser_pc = "loop"
    /\ i >= Len(lines)
    /\ parser_pc' = "done"
    /\ file_diffs' = Finalized
    /\ UNCHANGED <<lines, i, current_file, new_line_no, earlier>>
    /\ UNCHANGED <<pipelineVars, serviceVars>>

ParserNext ==
    \/ \E line \in LinePool : Len(lines) < MaxLines /\ FileBoundary(line)
    \/ \E line \in LinePool : Len(lines) < MaxLines /\ NewFileMarker(line)
    \/ \E line \in LinePool : Len(lines) < MaxLines /\ HunkHeader(line)
    \/ \E line \in LinePool : Len(lines) < MaxLines /\ HunkLine(line)
    \/ \E line \in LinePool : Len(lines) < MaxLines /\ SkipLine(line)
    \/ EndOfInput

SpecParser == ParserInit /\ [][ParserNext]_vars

\* ------------------------------------------------------------------------
\* parse_unified_diff: texts of up to two hunks
\* ------------------------------------------------------------------------

\* The lines the texts with several hunk headers are made of.
HunkLinePool ==
    { "diff --git a/x b/x",
      "+++ b/x",
      "@@ -1,2 +3,4 @@",
      "@@ -9 +1 @@ f",
      "@@ -1 +x @@",
      "@@ -1 @@",
      "+a",
      "-b",
      " c",
      "\tc" }

HunksNext ==
    \/ \E line \in HunkLinePool : Len(lines) < MaxHunkLines /\ FileBoundary(line)
    \/ \E line \in HunkLinePool : Len(lines) < MaxHunkLines /\ NewFileMarker(line)
    \/ \E line \in HunkLinePool : Len(lines) < MaxHunkLines /\ HunkHeader(line)
    \/ \E line \in HunkLinePool : Len(lines) < MaxHunkLines /\ HunkLine(line)
    \/ \E line \in HunkLinePool : Len(lines) < MaxHunkLines /\ SkipLine(line)
    \/ EndOfInput

SpecHunks == ParserInit /\ [][HunksNext]_vars

\* ------------------------------------------------------------------------
\* parse_unified_diff: a sequence of calls
\* ------------------------------------------------------------------------

\* The lines the texts of a sequence of calls are made of.
CallLinePool ==
    { "diff --git a/x b/x",
      "+++ b/x",
      "@@ -9 +1 @@ f",
      "+a" }

\* Mutant of EntryList: the output list is one list kept between the calls.
EntryListKept(previous) == [items |-> previous, fresh |-> FALSE]

\* file_diffs: List[FileDiff] = [] at the entry of a call: the empty list, a
\* list object no earlier call has a reference to.
EntryList(previous) == [items |-> <<>>, fresh |-> TRUE]

\* The record of a call that returned: its text, the list it returned, and
\* whether that list is the list object file_diffs is bound to now.
Call(text, result, same_list) ==
    [text |-> text, result |-> result, same_list |-> same_list]

\* parse_unified_diff is called again after it returned: the locals are set up
\* anew. The history keeps the call that just returned, or the call it held.
CallAgain ==
    /\ parser_pc = "done"
    /\ LET entry == EntryList(file_diffs) IN
       /\ \E keep \in BOOLEAN :
            earlier' =
              IF keep /\ ~IsNone(earlier)
              THEN Some(Call(Get(earlier).text, Get(earlier).result,
                             Get(earlier).same_list /\ ~entry.fresh))
              ELSE Some(Call(lines, file_diffs, ~entry.fresh))
       /\ file_diffs' = entry.items
    /\ lines' = <<>>
    /\ i' = 0
    /\ current_file' = None
    /\ new_line_no' = None
    /\ parser_pc' = "loop"
    /\ UNCHANGED <<pipelineVars, serviceVars>>

CallsNext ==
    \/ \E line \in CallLinePool : Len(lines) < MaxCallLines /\ FileBoundary(line)
    \/ \E line \in CallLinePool : Len(lines) < MaxCallLines /\ NewFileMarker(line)
    \/ \E line \in CallLinePool : Len(lines) < MaxCallLines /\ HunkHeader(line)
    \/ \E line \in CallLinePool : Len(lines) < MaxCallLines /\ HunkLine(line)
    \/ \E line \in CallLinePool : Len(lines) < MaxCallLines /\ SkipLine(line)
    \/ EndOfInput
    \/ CallAgain

SpecCalls == ParserInit /\ [][CallsNext]_vars

\* ------------------------------------------------------------------------
\* run_review_pipeline: rendering
\* ------------------------------------------------------------------------

\* str(n) of a natural number.
RECURSIVE NatToStr(_)
NatToStr(n) ==
    IF n < 10 THEN Digits[n + 1] ELSE NatToStr(n \div 10) \o Digits[(n % 10) + 1]

\* str(n) of an int.
IntToStr(n) == IF n < 0 THEN "-" \o NatToStr(0 - n) ELSE NatToStr(n)

\* f"{change['line']}": the line number, or "None".
LineToStr(line) == IF IsNone(line) THEN "None" ELSE IntToStr(Get(line))

\* Mutant of RenderChange: a deletion is marked like an addition.
RenderChangeUnmarked(change) ==
    IF "type" \notin DOMAIN change THEN Raised("KeyError")
    ELSE IF change.type \in {"addition", "deletion"}
    THEN IF "line" \notin DOMAIN change \/ "content" \notin DOMAIN change
         THEN Raised("KeyError")
         ELSE Returned("  Line " \o LineToStr(change.line) \o " (+): "
                       \o change.content \o "\n")
    ELSE Returned("")

\* The text one change adds to diff_context, or the KeyError a missing key
\* raises.
RenderChange(change) ==
    IF "type" \notin DOMAIN change THEN Raised("KeyError")
    ELSE IF change.type \in {"addition", "deletion"}
    THEN IF "line" \notin DOMAIN change \/ "content" \notin DOMAIN change
         THEN Raised("KeyError")
         ELSE Returned("  Line " \o LineToStr(change.line)
                       \o (IF change.type = "addition" THEN " (+): " ELSE " (-): ")
                       \o change.content \o "\n")
    ELSE Returned("")

RECURSIVE RenderChanges(_)
RenderChanges(changes) ==
    IF Len(changes) = 0 THEN Returned("")
    ELSE LET first == RenderChange(Head(changes)) IN
         IF first.exc # "" THEN first
         ELSE LET rest == RenderChanges(Tail(changes)) IN
              IF rest.exc # "" THEN rest ELSE Returned(first.val \o rest.val)

\* The text one file adds to diff_context, or the KeyError.
RenderFile(file_data) ==
    IF "file" \notin DOMAIN file_data THEN Raised("KeyError")
    ELSE LET body == RenderChanges(IF "changes" \in DOMAIN file_data
                                   THEN file_data.changes ELSE <<>>)
         IN  IF body.exc # "" THEN body
             ELSE Returned("File: " \o file_data.file \o "\nChanges:\n"
                           \o body.val \o "\n")

RECURSIVE RenderFiles(_)
RenderFiles(files) ==
    IF Len(files) = 0 THEN Returned("")
    ELSE LET first == RenderFile(Head(files)) IN
         IF first.exc # "" THEN first
         ELSE LET rest == RenderFiles(Tail(files)) IN
              IF rest.exc # "" THEN rest ELSE Returned(first.val \o rest.val)

\* diff_context, or the KeyError building it raises.
RenderContext(diff) ==
    LET body == RenderFiles(IF "files" \in DOMAIN diff THEN diff.files ELSE <<>>)
    IN  IF body.exc # "" THEN body
        ELSE Returned("Code changes to review:\n\n" \o body.val)

\* ------------------------------------------------------------------------
\* run_review_pipeline: the inputs
\* ------------------------------------------------------------------------

\* A structured diff as main.py builds it from the parser's output.
DiffOfTwoFiles ==
    [files |-> <<
       [file |-> "app.py",
        changes |-> <<
          [type |-> "context", line |-> Some(14), content |-> "x = 1"],
          [type |-> "deletion", line |-> None, content |-> "q(a)"],
          [type |-> "addition", line |-> Some(15), content |-> "q(b)"],
          [type |-> "addition", line |-> Some(16), content |-> "n = 2"] >>],
       [file |-> "db.py",
        changes |-> <<
          [type |-> "addition", line |-> Some(7), content |-> "rows = all()"],
          [type |-> "context", line |-> Some(8), content |-> ""] >>] >>]

\* A malformed structured diff: a file record without 'file'.
DiffWithoutFile == [files |-> <<[changes |-> <<>>]>>]

\* A malformed structured diff: a change without 'type'.
DiffWithoutType ==
    [files |-> <<[file |-> "app.py",
                  changes |-> <<[line |-> Some(1), content |-> "x"]>>]>>]

StructuredDiffs == {DiffOfTwoFiles, DiffWithoutFile, DiffWithoutType}

\* ------------------------------------------------------------------------
\* run_review_pipeline: the main thread and the tasks of the thread pool
\* ------------------------------------------------------------------------

PipelineInit ==
    /\ lines = <<>>
    /\ i = 0
    /\ file_diffs = <<>>
    /\ current_file = None
    /\ new_line_no = None
    /\ parser_pc = "idle"
    /\ earlier = None
    /\ structured_diff \in StructuredDiffs
    /\ diff_context = ""
    /\ futures = [w \in Workers |-> [status |-> "unsubmitted", out |-> ""]]
    /\ task_context = [w \in Workers |-> ""]
    /\ agent_results = <<>>
    /\ all_comments = <<>>
    /\ comments = <<>>
    /\ overtaken = FALSE
    /\ pipeline_pc = "render"
    /\ SequentialIdle
    /\ FetchIdle

\* Mutant of max_workers: a pool of half as many threads as there are agents.
HalfTheWorkers == Len(WorkerOrder) \div 2

\* ThreadPoolExecutor(max_workers=4)
max_workers == 4

\* The number of tasks a thread of the pool is running.
InFlight == Cardinality({w \in Workers : futures[w].status \in {"running", "hung"}})

\* The Future is done: its task returned or raised.
IsDone(future) == future.status \in {"returned", "failed"}

\* The task of w ends while a task submitted before it has not ended.
EndsOutOfOrder(w) ==
    \E k, m \in 1..Len(WorkerOrder) :
        k < m /\ WorkerOrder[m] = w /\ ~IsDone(futures[WorkerOrder[k]])

\* Lines 98-107: diff_context is built; a KeyError goes to the caller.
Render ==
    /\ pipeline_pc = "render"
    /\ LET r == RenderContext(structured_diff) IN
       IF r.exc = ""
       THEN diff_context' = r.val /\ pipeline_pc' = "submit"
       ELSE pipeline_pc' = "raised" /\ UNCHANGED diff_context
    /\ UNCHANGED <<structured_diff, futures, task_context, agent_results,
                   all_comments, comments>>
    /\ UNCHANGED <<overtaken, parserVars, serviceVars>>

\* The number of tasks submitted.
Submitted == Cardinality({w \in Workers : futures[w].status # "unsubmitted"})

\* Mutant of Submit: each task is given a context of its own, headed by the
\* name of its agent.
SubmitOwnContext ==
    /\ pipeline_pc = "submit"
    /\ LET w == WorkerOrder[Submitted + 1] IN
       /\ futures' = [futures EXCEPT ![w].status = "queued"]
       /\ task_context' = [task_context EXCEPT ![w] = w \o ":\n" \o diff_context]
    /\ pipeline_pc' = IF Submitted + 1 = Len(WorkerOrder) THEN "collect" ELSE "submit"
    /\ UNCHANGED <<structured_diff, diff_context, agent_results, all_comments,
                   comments>>
    /\ UNCHANGED <<overtaken, parserVars, serviceVars>>

\* executor.submit(_run_single_agent_task, agent, DESC, diff_context, name), in
\* the order of the dict display; after the fourth the loop over futures starts.
Submit ==
    /\ pipeline_pc = "submit"
    /\ LET w == WorkerOrder[Submitted + 1] IN
       /\ futures' = [futures EXCEPT ![w].status = "queued"]
       /\ task_context' = [task_context EXCEPT ![w] = diff_context]
    /\ pipeline_pc' = IF Submitted + 1 = Len(WorkerOrder) THEN "collect" ELSE "submit"
    /\ UNCHANGED <<structured_diff, diff_context, agent_results, all_comments,
                   comments>>
    /\ UNCHANGED <<overtaken, parserVars, serviceVars>>

\* A thread of the pool takes the task from the queue.
StartTask(w) ==
    /\ futures[w].status = "queued"
    /\ InFlight < max_workers
    /\ futures' = [futures EXCEPT ![w].status = "running"]
    /\ UNCHANGED <<structured_diff, diff_context, task_context, agent_results,
                   all_comments, comments, pipeline_pc>>
    /\ UNCHANGED <<overtaken, parserVars, serviceVars>>

\* _run_single_agent_task returns str(crew.kickoff()).
TaskReturns(w, out) ==
    /\ futures[w].status = "running"
    /\ futures' = [futures EXCEPT ![w] = [status |-> "returned", out |-> out]]
    /\ overtaken' = (overtaken \/ EndsOutOfOrder(w))
    /\ UNCHANGED <<structured_diff, diff_context, task_context, agent_results,
                   all_comments, comments, pipeline_pc>>
    /\ UNCHANGED <<parserVars, serviceVars>>

\* crew.kickoff() raises an Exception.
TaskRaises(w) ==
    /\ futures[w].status = "running"
    /\ futures' = [futures EXCEPT ![w].status = "failed"]
    /\ overtaken' = (overtaken \/ EndsOutOfOrder(w))
    /\ UNCHANGED <<structured_diff, diff_context, task_context, agent_results,
                   all_comments, comments, pipeline_pc>>
    /\ UNCHANGED <<parserVars, serviceVars>>

\* crew.kickoff() never returns: the task stays on its thread for good.
TaskHangs(w) ==
    /\ futures[w].status = "running"
    /\ futures' = [futures EXCEPT ![w].status = "hung"]
    /\ UNCHANGED <<structured_diff, diff_context, task_context, agent_results,
                   all_comments, comments, pipeline_pc>>
    /\ UNCHANGED <<overtaken, parserVars, serviceVars>>

\* Mutant of FutureToCollect: the futures are taken as they complete.
FutureAsCompleted ==
    LET waiting == {k \in 1..Len(WorkerOrder) :
                      /\ \A r \in 1..Len(agent_results) :
                           agent_results[r][1] # WorkerOrder[k]
                      /\ IsDone(futures[WorkerOrder[k]])}
    IN  IF waiting = {} THEN WorkerOrder[Len(agent_results) + 1]
        ELSE WorkerOrder[CHOOSE k \in waiting : \A m \in waiting : m <= k]

\* for future in futures: the next key of the dict, in insertion order.
FutureToCollect == WorkerOrder[Len(agent_results) + 1]

\* Mutant of CanCollect: the loop does not wait for the task.
CanCollectAtOnce(future) == TRUE

\* future.result() returns or raises once the Future is done, and blocks until
\* then.
CanCollect(future) == IsDone(future)

\* Mutant of FutureResult: no try around future.result().
FutureResultUncaught(future) ==
    IF future.status = "returned" THEN Returned(future.out)
    ELSE Raised("Exception")

\* try: result = future.result() / except Exception: "[]"
FutureResult(future) ==
    IF future.status = "returned" THEN Returned(future.out)
    ELSE Returned("[]")

\* One iteration of the loop over futures; after the last one the with block
\* ends (every task is done by then) and the parsing of the results starts.
Collect ==
    /\ pipeline_pc = "collect"
    /\ LET w == FutureToCollect
           r == FutureResult(futures[w])
       IN  /\ CanCollect(futures[w])
           /\ IF r.exc # ""
              THEN pipeline_pc' = "raised" /\ UNCHANGED agent_results
              ELSE /\ agent_results' = Append(agent_results, <<w, r.val>>)
                   /\ pipeline_pc' = IF Len(agent_results) + 1 = Len(WorkerOrder)
                                     THEN "extract" ELSE "collect"
    /\ UNCHANGED <<structured_diff, diff_context, futures, task_context,
                   all_comments, comments>>
    /\ UNCHANGED <<overtaken, parserVars, serviceVars>>

\* Lines 135-150: the loop over agent_results.items().
Extract ==
    /\ pipeline_pc = "extract"
    /\ LET r == ExtractAll(agent_results) IN
       IF r.exc = ""
       THEN all_comments' = r.val /\ pipeline_pc' = "dedup"
       ELSE pipeline_pc' = "raised" /\ UNCHANGED all_comments
    /\ UNCHANGED <<structured_diff, diff_context, futures, task_context,
                   agent_results, comments>>
    /\ UNCHANGED <<overtaken, parserVars, serviceVars>>

\* Lines 156-184: the dedup loop and the return of {"comments": comments}.
Deduplicate ==
    /\ pipeline_pc = "dedup"
    /\ LET r == Dedup(all_comments) IN
       IF r.exc = ""
       THEN comments' = r.val /\ pipeline_pc' = "done"
       ELSE pipeline_pc' = "raised" /\ UNCHANGED comments
    /\ UNCHANGED <<structured_diff, diff_context, futures, task_context,
                   agent_results, all_comments>>
    /\ UNCHANGED <<overtaken, parserVars, serviceVars>>

PipelineNext ==
    \/ Render
    \/ Submit
    \/ \E w \in Workers : StartTask(w)
    \/ \E w \in Workers : \E out \in OutputPool : TaskReturns(w, out)
    \/ \E w \in Workers : TaskRaises(w)
    \/ \E w \in Workers : TaskHangs(w)
    \/ Collect
    \/ Extract
    \/ Deduplicate

SpecPipeline == PipelineInit /\ [][PipelineNext]_vars

\* ------------------------------------------------------------------------
\* run_review_pipeline: outputs whose findings meet in the dedup key
\* ------------------------------------------------------------------------

\* The agent outputs of the runs that look at the dedup key.
FindingTexts ==
    {TextLongIssues, TextIssuesDifferAt50, TextLineOmitted, TextLineNull,
     TextSeverityBlocker, TextNoFindings}

FindingsNext ==
    \/ Render
    \/ Submit
    \/ \E w \in Workers : StartTask(w)
    \/ \E w \in Workers : \E out \in FindingTexts : TaskReturns(w, out)
    \/ \E w \in Workers : TaskRaises(w)
    \/ \E w \in Workers : TaskHangs(w)
    \/ Collect
    \/ Extract
    \/ Deduplicate

SpecFindings == PipelineInit /\ [][FindingsNext]_vars

\* ------------------------------------------------------------------------
\* The sequential run_review_pipeline (crew with a consolidation agent)
\* ------------------------------------------------------------------------

\* The JSON texts a crew output is made of.
SeqBodies ==
    {TextComments, TextDuplicateComments, TextEmptyComments, TextEmptyObject,
     TextCommentsNumber, TextNoFindings, TextInjection, TextNull, TextProse}

\* The output is the JSON text and nothing else.
Bare(body) == body

\* The output is a fenced block labelled json.
Fenced(body) == Fence \o "json\n" \o body \o "\n" \o Fence

\* The output is a fenced block labelled json with text around it.
FencedInProse(body) ==
    "Here is the consolidated review:\n\n" \o Fenced(body) \o "\n\nDone."

\* The output is a fenced block without a label.
FencedUnlabelled(body) == Fence \o "\n" \o body \o "\n" \o Fence

SeqOutputPool ==
    {Bare(b) : b \in SeqBodies} \cup {Fenced(b) : b \in SeqBodies}
        \cup {FencedInProse(b) : b \in SeqBodies}
        \cup {FencedUnlabelled(b) : b \in SeqBodies}

SequentialInit ==
    /\ ParserIdle
    /\ PipelineIdle
    /\ FetchIdle
    /\ result_str = ""
    /\ json_str = ""
    /\ parsed = None
    /\ seq_comments = None
    /\ seq_exc = ""
    /\ seq_pc = "kickoff"

\* result = crew.kickoff(...); result_str = str(result)
Kickoff(out) ==
    /\ seq_pc = "kickoff"
    /\ result_str' = out
    /\ seq_pc' = "search"
    /\ UNCHANGED <<json_str, parsed, seq_comments, seq_exc>>
    /\ UNCHANGED <<parserVars, pipelineVars, fetchVars>>

\* crew.kickoff raises: nothing catches it.
KickoffRaises ==
    /\ seq_pc = "kickoff"
    /\ seq_exc' = "Exception"
    /\ seq_pc' = "raised"
    /\ UNCHANGED <<result_str, json_str, parsed, seq_comments>>
    /\ UNCHANGED <<parserVars, pipelineVars, fetchVars>>

\* Mutant of SeqJsonStr: the whole output is parsed.
SeqJsonStrWhole(out) == out

\* json_str: group 1 of the match of the fence, else the whole output.
SeqJsonStr(out) == JsonStrOf(out)

\* Lines 106-110.
SearchFence ==
    /\ seq_pc = "search"
    /\ json_str' = SeqJsonStr(result_str)
    /\ seq_pc' = "loads"
    /\ UNCHANGED <<result_str, parsed, seq_comments, seq_exc>>
    /\ UNCHANGED <<parserVars, pipelineVars, fetchVars>>

\* parsed = json.loads(json_str); except json.JSONDecodeError: comments = []
\* and the return.
Loads ==
    /\ seq_pc = "loads"
    /\ LET value == JsonLoads(json_str) IN
       IF value.t = "JSONDecodeError"
       THEN /\ seq_comments' = Some(JList(<<>>))
            /\ seq_pc' = "done"
            /\ UNCHANGED parsed
       ELSE /\ parsed' = Some(value)
            /\ seq_pc' = "get"
            /\ UNCHANGED seq_comments
    /\ UNCHANGED <<result_str, json_str, seq_exc>>
    /\ UNCHANGED <<parserVars, pipelineVars, fetchVars>>

\* comments = parsed.get("comments", []) and the return; a value that is no
\* dict has no get, and AttributeError is not caught.
GetComments ==
    /\ seq_pc = "get"
    /\ IF Get(parsed).t = "dict"
       THEN /\ seq_comments' = Some(DictGet(Get(parsed), "comments", JList(<<>>)))
            /\ seq_pc' = "done"
            /\ UNCHANGED seq_exc
       ELSE /\ seq_exc' = "AttributeError"
            /\ seq_pc' = "raised"
            /\ UNCHANGED seq_comments
    /\ UNCHANGED <<result_str, json_str, parsed>>
    /\ UNCHANGED <<parserVars, pipelineVars, fetchVars>>

SequentialNext ==
    \/ \E out \in SeqOutputPool : Kickoff(out)
    \/ KickoffRaises
    \/ SearchFence
    \/ Loads
    \/ GetComments

SpecSequential == SequentialInit /\ [][SequentialNext]_vars

\* ------------------------------------------------------------------------
\* fetch_pr_diff (src/services/github_service.py)
\* ------------------------------------------------------------------------

UpperLetters == "ABCDEFGHIJKLMNOPQRSTUVWXYZ"

LowerLetters == "abcdefghijklmnopqrstuvwxyz"

LowerChar(c) ==
    IF \E k \in 1..Len(UpperLetters) : CharAt(UpperLetters, k) = c
    THEN CharAt(LowerLetters, CHOOSE k \in 1..Len(UpperLetters) : CharAt(UpperLetters, k) = c)
    ELSE c

\* str.lower()
RECURSIVE Lower(_)
Lower(text) ==
    IF Len(text) = 0 THEN "" ELSE LowerChar(CharAt(text, 1)) \o Lower(Tail(text))

\* sub in text
Contains(text, sub) == FindFrom(text, sub, 1) # 0

\* The whitespace str.strip() removes from a response body.
IsWhitespace(c) == c \in {" ", "\t", "\n", "\r", "\f"}

\* text.strip() == ""
StripsToEmpty(text) == \A k \in 1..Len(text) : IsWhitespace(CharAt(text, k))

\* Mutant of IsEmptyDiff: only the empty body counts as empty.
IsEmptyDiffUnstripped(diff_text) == diff_text = ""

\* not diff_text or diff_text.strip() == ""
IsEmptyDiff(diff_text) == diff_text = "" \/ StripsToEmpty(diff_text)

\* "Binary files" in diff_text or "GIT binary patch" in diff_text
HasBinaryMarker(diff_text) ==
    Contains(diff_text, "Binary files") \/ Contains(diff_text, "GIT binary patch")

\* Response bodies.
BodyEmpty == ""

BodyBlank == " \n\t\n"

BodyDiff ==
    "diff --git a/t.py b/t.py\n--- a/t.py\n+++ b/t.py\n@@ -1,1 +1,2 @@\n original\n+new line\n"

BodyBinaryFiles ==
    "diff --git a/i.png b/i.png\nBinary files a/i.png and b/i.png differ\n"

BodyGitBinaryPatch ==
    "diff --git a/i.png b/i.png\nindex 1..2\nGIT binary patch\nliteral 5\n"

BodyRateLimit == "{\"message\":\"API rate limit exceeded for user ID 1.\"}"

BodySecondaryRateLimit == "You have exceeded a secondary Rate Limit."

BodyForbidden == "{\"message\":\"Resource not accessible by personal access token\"}"

Bodies ==
    {BodyEmpty, BodyBlank, BodyDiff, BodyBinaryFiles, BodyGitBinaryPatch,
     BodyRateLimit, BodySecondaryRateLimit, BodyForbidden}

\* Status codes of the responses.
StatusCodes == {200, 401, 403, 404, 422, 500}

Response(status_code, text) == [status_code |-> status_code, text |-> text]

\* The exceptions of httpx that client.get raises, and the classes each is an
\* instance of. InvalidURL derives from Exception alone.
GetExceptions == {"ConnectTimeout", "ReadTimeout", "ConnectError", "InvalidURL"}

ClassesOf(exc) ==
    CASE exc \in {"ConnectTimeout", "ReadTimeout"} ->
           {exc, "TimeoutException", "TransportError", "RequestError", "HTTPError",
            "Exception"}
      [] exc = "ConnectError" ->
           {exc, "TransportError", "RequestError", "HTTPError", "Exception"}
      [] exc = "HTTPStatusError" -> {exc, "HTTPError", "Exception"}
      [] exc \in {"EmptyPRError", "BinaryDiffError"} ->
           {exc, "GitHubAPIError", "Exception"}
      [] OTHER -> {exc, "Exception"}

\* except cls: takes exc
IsInstance(exc, cls) == cls \in ClassesOf(exc)

\* response.raise_for_status() raises HTTPStatusError for a 4xx or 5xx status.
IsErrorStatus(status_code) == status_code >= 400 /\ status_code <= 599

FetchInit ==
    /\ ParserIdle
    /\ PipelineIdle
    /\ SequentialIdle
    /\ response = None
    /\ fetch_exc = ""
    /\ fetch_result = None
    /\ fetch_pc = "get"

\* response = await client.get(url, headers=headers, timeout=30.0)
ClientGet(r) ==
    /\ fetch_pc = "get"
    /\ response' = Some(r)
    /\ fetch_pc' = "raise_for_status"
    /\ UNCHANGED <<fetch_exc, fetch_result>>
    /\ UNCHANGED <<parserVars, pipelineVars, sequentialVars>>

\* client.get raises.
ClientGetRaises(exc) ==
    /\ fetch_pc = "get"
    /\ fetch_exc' = exc
    /\ fetch_pc' = "except"
    /\ UNCHANGED <<response, fetch_result>>
    /\ UNCHANGED <<parserVars, pipelineVars, sequentialVars>>

\* response.raise_for_status()
RaiseForStatus ==
    /\ fetch_pc = "raise_for_status"
    /\ IF IsErrorStatus(Get(response).status_code)
       THEN fetch_exc' = "HTTPStatusError" /\ fetch_pc' = "except"
       ELSE fetch_pc' = "check_empty" /\ UNCHANGED fetch_exc
    /\ UNCHANGED <<response, fetch_result>>
    /\ UNCHANGED <<parserVars, pipelineVars, sequentialVars>>

\* Lines 74-81: the check for an empty PR.
CheckEmpty ==
    /\ fetch_pc = "check_empty"
    /\ IF IsEmptyDiff(Get(response).text)
       THEN fetch_exc' = "EmptyPRError" /\ fetch_pc' = "except"
       ELSE fetch_pc' = "check_binary" /\ UNCHANGED fetch_exc
    /\ UNCHANGED <<response, fetch_result>>
    /\ UNCHANGED <<parserVars, pipelineVars, sequentialVars>>

\* Lines 84-90: the check for binary files, and the return of diff_text.
CheckBinary ==
    /\ fetch_pc = "check_binary"
    /\ IF HasBinaryMarker(Get(response).text)
       THEN /\ fetch_exc' = "BinaryDiffError"
            /\ fetch_pc' = "except"
            /\ UNCHANGED fetch_result
       ELSE /\ fetch_result' = Some(Returned(Get(response).text))
            /\ fetch_pc' = "done"
            /\ UNCHANGED fetch_exc
    /\ UNCHANGED response
    /\ UNCHANGED <<parserVars, pipelineVars, sequentialVars>>

\* The error the handler of HTTPStatusError raises for e.response.
StatusErrorOf(r) ==
    IF r.status_code = 404 THEN "PRNotFoundError"
    ELSE IF r.status_code = 401 THEN "InvalidTokenError"
    ELSE IF r.status_code = 403
         THEN IF Contains(Lower(r.text), "rate limit") THEN "RateLimitError"
              ELSE "InvalidTokenError"
    ELSE "GitHubAPIError"

\* except httpx.HTTPStatusError as e:
HandleStatusError ==
    /\ fetch_pc = "except"
    /\ IsInstance(fetch_exc, "HTTPStatusError")
    /\ fetch_result' = Some(Raised(StatusErrorOf(Get(response))))
    /\ fetch_pc' = "done"
    /\ UNCHANGED <<response, fetch_exc>>
    /\ UNCHANGED <<parserVars, pipelineVars, sequentialVars>>

\* except httpx.TimeoutException:
HandleTimeout ==
    /\ fetch_pc = "except"
    /\ ~IsInstance(fetch_exc, "HTTPStatusError")
    /\ IsInstance(fetch_exc, "TimeoutException")
    /\ fetch_result' = Some(Raised("NetworkError"))
    /\ fetch_pc' = "done"
    /\ UNCHANGED <<response, fetch_exc>>
    /\ UNCHANGED <<parserVars, pipelineVars, sequentialVars>>

\* except httpx.RequestError as e:
HandleRequestError ==
    /\ fetch_pc = "except"
    /\ ~IsInstance(fetch_exc, "HTTPStatusError")
    /\ ~IsInstance(fetch_exc, "TimeoutException")
    /\ IsInstance(fetch_exc, "RequestError")
    /\ fetch_result' = Some(Raised("NetworkError"))
    /\ fetch_pc' = "done"
    /\ UNCHANGED <<response, fetch_exc>>
    /\ UNCHANGED <<parserVars, pipelineVars, sequentialVars>>

\* No except clause takes the exception: it leaves fetch_pr_diff as it is.
Propagate ==
    /\ fetch_pc = "except"
    /\ ~IsInstance(fetch_exc, "HTTPStatusError")
    /\ ~IsInstance(fetch_exc, "TimeoutException")
    /\ ~IsInstance(fetch_exc, "RequestError")
    /\ fetch_result' = Some(Raised(fetch_exc))
    /\ fetch_pc' = "done"
    /\ UNCHANGED <<response, fetch_exc>>
    /\ UNCHANGED <<parserVars, pipelineVars, sequentialVars>>

FetchNext ==
    \/ \E status_code \in StatusCodes : \E text \in Bodies :
         ClientGet(Response(status_code, text))
    \/ \E exc \in GetExceptions : ClientGetRaises(exc)
    \/ RaiseForStatus
    \/ CheckEmpty
    \/ CheckBinary
    \/ HandleStatusError
    \/ HandleTimeout
    \/ HandleRequestError
    \/ Propagate

SpecFetch == FetchInit /\ [][FetchNext]_vars

\* ------------------------------------------------------------------------
\* parse_unified_diff: what the claims speak of, read off the input
\* ------------------------------------------------------------------------

\* The FileDiffs built so far: the finalized ones and, inside the loop, the
\* open one. After the return it is the returned list.
AllFiles == IF parser_pc = "loop" THEN Finalized ELSE file_diffs

\* The text after "+++ " of a new-file line, surrounding whitespace removed.
Target(line) == Strip(DropFirst(line, 4))

\* A line that ends a hunk body: a file boundary, a new-file line, a header.
IsMarkerLine(line) ==
    \/ StartsWith(line, "diff --git ")
    \/ StartsWith(line, "+++ ")
    \/ StartsWith(line, "@@ ")

\* The index of the last marker line of ls, 0 when it has none.
RECURSIVE LastMarker(_)
LastMarker(ls) ==
    IF Len(ls) = 0 THEN 0
    ELSE IF IsMarkerLine(ls[Len(ls)]) THEN Len(ls)
    ELSE LastMarker(SubSeq(ls, 1, Len(ls) - 1))

\* A line of a hunk body that stands for an added, removed or context line.
IsBodyLine(line) ==
    line # "" /\ CharAt(line, 1) \in {"+", "-", " ", "\t"}

RECURSIVE BodyLines(_)
BodyLines(ls) ==
    IF Len(ls) = 0 THEN <<>>
    ELSE IF IsBodyLine(Head(ls)) THEN <<Head(ls)>> \o BodyLines(Tail(ls))
    ELSE BodyLines(Tail(ls))

\* The number of addition or context lines among the first n lines of body.
RECURSIVE NewSideCount(_, _)
NewSideCount(body, n) ==
    IF n = 0 THEN 0
    ELSE NewSideCount(body, n - 1) + (IF CharAt(body[n], 1) = "-" THEN 0 ELSE 1)

\* The "+++ " lines of ls that are still the open file when a file boundary or
\* the end of ls comes, in order; pending is the last "+++ " line, if any.
RECURSIVE ClosingMarkers(_, _)
ClosingMarkers(ls, pending) ==
    IF Len(ls) = 0 THEN pending
    ELSE IF StartsWith(Head(ls), "diff --git ")
         THEN pending \o ClosingMarkers(Tail(ls), <<>>)
    ELSE IF StartsWith(Head(ls), "+++ ")
         THEN ClosingMarkers(Tail(ls), <<Head(ls)>>)
    ELSE ClosingMarkers(Tail(ls), pending)

HasNewFileLine(ls) == \E j \in 1..Len(ls) : StartsWith(ls[j], "+++ ")

\* ------------------------------------------------------------------------
\* Claims on parse_unified_diff
\* ------------------------------------------------------------------------

\* C1: in the hunk being read, whose header gave new-range start S, the k-th
\* addition or context line recorded has line = S + (the number of addition
\* and context lines recorded before it in the hunk); the deletions in
\* between are recorded and do not change the count.
C1_HunkLineNumbers ==
    LET h == LastMarker(lines) IN
    (/\ parser_pc # "raised"
     /\ ~IsNone(current_file)
     /\ h > 0
     /\ StartsWith(lines[h], "@@ ")
     /\ HunkStart(lines[h]).exc = "")
    => LET S == HunkStart(lines[h]).val
           body == BodyLines(SubSeq(lines, h + 1, Len(lines)))
           ch == Get(current_file).changes
           off == Len(ch) - Len(body)
       IN  /\ off >= 0
           /\ \A k \in 1..Len(body) :
                IF CharAt(body[k], 1) = "-"
                THEN ch[off + k].type = "deletion"
                ELSE /\ ch[off + k].type \in {"addition", "context"}
                     /\ ch[off + k].line = Some(S + NewSideCount(body, k - 1))

\* C1 witness: a hunk with start 3 recorded a deletion and then an addition,
\* which got line 3.
C1_Witness ==
    /\ ~IsNone(current_file)
    /\ Len(lines) = 4
    /\ lines[2] = "@@ -1,2 +3,4 @@"
    /\ Len(Get(current_file).changes) = 2
    /\ Get(current_file).changes[1].type = "deletion"
    /\ Get(current_file).changes[2] = LineChange("addition", Some(3), "a")

\* C2: every recorded deletion has no line, every recorded addition and
\* context line has one.
C2_DeletionHasNoLine ==
    \A f \in 1..Len(AllFiles) :
      \A c \in 1..Len(AllFiles[f].changes) :
        LET change == AllFiles[f].changes[c] IN
        /\ change.type \in {"addition", "deletion", "context"}
        /\ change.type = "deletion" => IsNone(change.line)
        /\ change.type \in {"addition", "context"} => ~IsNone(change.line)

\* C2 witness: a returned file holds a deletion and an addition.
C2_Witness ==
    /\ parser_pc = "done"
    /\ \E f \in 1..Len(file_diffs) :
         /\ \E c \in 1..Len(file_diffs[f].changes) :
              file_diffs[f].changes[c].type = "deletion"
         /\ \E c \in 1..Len(file_diffs[f].changes) :
              file_diffs[f].changes[c].type = "addition"

\* C3 (as claimed): no FileDiff of a returned list has the literal path
\* "/dev/null".
C3_NeverDevNull ==
    parser_pc = "done" =>
      \A f \in 1..Len(file_diffs) : file_diffs[f].file # "/dev/null"

\* C3 (amended): the FileDiffs are those of the "+++ " lines still open at a
\* file boundary or at the end; one whose target is exactly /dev/null has the
\* path "<deleted-file>", and a FileDiff has the literal path "/dev/null"
\* only when its target is a//dev/null or b//dev/null.
C3_DevNullIsSentinel ==
    LET markers == ClosingMarkers(lines, <<>>) IN
    parser_pc # "raised" =>
      /\ Len(AllFiles) = Len(markers)
      /\ \A f \in 1..Len(markers) :
           /\ Target(markers[f]) = "/dev/null"
                => AllFiles[f].file = "<deleted-file>"
           /\ AllFiles[f].file = "/dev/null"
                => Target(markers[f]) \in {"a//dev/null", "b//dev/null"}

\* C3 witness: a returned file came from "+++ /dev/null".
C3_Witness ==
    /\ parser_pc = "done"
    /\ \E f \in 1..Len(file_diffs) :
         /\ ClosingMarkers(lines, <<>>)[f] = "+++ /dev/null"
         /\ file_diffs[f].file = "<deleted-file>"

\* C4: the parse of the empty text, and of every text without a line that
\* starts with "+++ ", returns the empty list.
C4_NoMarkersNoFiles ==
    (parser_pc = "done" /\ ~HasNewFileLine(lines)) => file_diffs = <<>>

\* C4 witness: a text with a file boundary, a hunk header and an added line
\* but no "+++ " line was parsed to the empty list.
C4_Witness ==
    /\ parser_pc = "done"
    /\ ~HasNewFileLine(lines)
    /\ \E j \in 1..Len(lines) : StartsWith(lines[j], "diff --git ")
    /\ \E j \in 1..Len(lines) : StartsWith(lines[j], "@@ ")
    /\ \E j \in 1..Len(lines) : lines[j] = "+a"
    /\ file_diffs = <<>>

\* C5: the parse never raises, every iteration moves on to the next line, so
\* the pass is at the end of what it read and can return, and what it returns
\* is a list of FileDiff.
C5_ParserTotal ==
    /\ parser_pc \in {"loop", "done"}
    /\ i = Len(lines)
    /\ \A f \in 1..Len(AllFiles) :
         /\ DOMAIN AllFiles[f] = {"file", "changes"}
         /\ \A c \in 1..Len(AllFiles[f].changes) :
              DOMAIN AllFiles[f].changes[c] = {"type", "line", "content"}

\* C5 witness: a text whose hunk header has no integer start, and which ends
\* right after it, was parsed and returned.
C5_Witness ==
    /\ parser_pc = "done"
    /\ Len(lines) >= 2
    /\ StartsWith(lines[Len(lines) - 1], "+++ ")
    /\ lines[Len(lines)] = "@@ -1 +x @@"
    /\ Len(file_diffs) = 1

\* ------------------------------------------------------------------------
\* run_review_pipeline: what the claims speak of, read off the futures
\* ------------------------------------------------------------------------

Succeeded(w) == futures[w].status = "returned"

Failed(w) == futures[w].status = "failed"

\* The findings in the output of the task of w: those of the text it returned,
\* none when it did not return one.
FindingsOf(w) ==
    IF Succeeded(w) THEN ExtractOne(futures[w].out).val ELSE <<>>

\* The findings of the first n workers, in the order of WorkerOrder.
RECURSIVE FindingsInOrder(_)
FindingsInOrder(n) ==
    IF n = 0 THEN <<>>
    ELSE FindingsInOrder(n - 1) \o FindingsOf(WorkerOrder[n])

\* (file, line or 0, the first 50 characters of issue) of a finding record.
KeyOfFinding(f) == KeyOf(f).val

HasKey(seq, key) == \E m \in 1..Len(seq) : KeyOfFinding(seq[m]) = key

\* seq without every element whose key an earlier element has.
RECURSIVE FirstOfEachKey(_)
FirstOfEachKey(seq) ==
    IF Len(seq) = 0 THEN <<>>
    ELSE LET front == SubSeq(seq, 1, Len(seq) - 1)
             last == seq[Len(seq)]
         IN  IF HasKey(front, KeyOfFinding(last)) THEN FirstOfEachKey(front)
             ELSE Append(FirstOfEachKey(front), last)

\* The output of w can be extracted and deduplicated without an exception.
IsFindingCollection(w) ==
    /\ ExtractOne(futures[w].out).exc = ""
    /\ Dedup(ExtractOne(futures[w].out).val).exc = ""

\* The run raised after the rendering, that is in extraction or deduplication.
RaisedAfterRender == pipeline_pc = "raised" /\ Submitted > 0

\* ------------------------------------------------------------------------
\* Claims on run_review_pipeline
\* ------------------------------------------------------------------------

C9_JoinBarrier ==
    (pipeline_pc \in {"extract", "dedup", "done"} \/ RaisedAfterRender) =>
      /\ \A w \in Workers : IsDone(futures[w])
      /\ Len(agent_results) = Len(WorkerOrder)
      /\ \A k \in 1..Len(WorkerOrder) :
           agent_results[k] =
             <<WorkerOrder[k],
               IF Succeeded(WorkerOrder[k]) THEN futures[WorkerOrder[k]].out
               ELSE "[]">>

\* C9 witness: extraction is about to start, security ended before an earlier
\* task, and the output readability returned last is in agent_results.
C9_Witness ==
    /\ pipeline_pc = "extract"
    /\ overtaken
    /\ agent_results[1] = <<"readability", TextFenced>>
    /\ agent_results[4] = <<"security", TextComments>>

\* The main thread can take a step.
MainCanStep == ENABLED (Render \/ Submit \/ Collect \/ Extract \/ Deduplicate)

\* C10 (as claimed): a task whose analysis call never returns does not keep
\* the run from returning: while the run has not returned or raised, the main
\* thread or a task that can still end has a step to take.
C10_ReturnsDespiteHang ==
    (/\ pipeline_pc \notin {"idle", "done", "raised"}
     /\ \E w \in Workers : futures[w].status = "hung")
    => \/ MainCanStep
       \/ \E w \in Workers : futures[w].status \in {"queued", "running"}

\* C11 (as claimed): once the four outputs are collected the run does not
\* raise: extraction and deduplication take every output text, a worker whose
\* output is no collection of finding records adds nothing, and the run
\* returns.
C11_ExtractionNeverRaises ==
    Len(agent_results) = Len(WorkerOrder) => pipeline_pc # "raised"

\* The key the specification gives a finding record: its file, its line and
\* the first 50 characters of its issue.
FindingKey(f) ==
    <<f.v.file.v, f.v.line.v,
      IF Len(f.v.issue.v) <= 50 THEN f.v.issue.v ELSE SubSeq(f.v.issue.v, 1, 50)>>

\* The number of elements of seq with the key of f.
CountOfKey(seq, f) ==
    Cardinality({m \in 1..Len(seq) : FindingKey(seq[m]) = FindingKey(f)})

\* seq without every element whose key an element before it has.
RECURSIVE WithoutRepeatedKeys(_)
WithoutRepeatedKeys(seq) ==
    IF Len(seq) = 0 THEN <<>>
    ELSE LET front == SubSeq(seq, 1, Len(seq) - 1)
             last == seq[Len(seq)]
         IN  IF CountOfKey(front, last) > 0 THEN WithoutRepeatedKeys(front)
             ELSE Append(WithoutRepeatedKeys(front), last)

\* C12: the result is the concatenated findings without every finding whose
\* key (file, line, first 50 characters of issue) an earlier one has: no two
\* findings of the result share a key, every key of an extracted finding
\* occurs exactly once in the result, and the findings kept are in their
\* original order.
C12_KeepFirstDropRest ==
    pipeline_pc = "done" =>
      /\ comments = WithoutRepeatedKeys(all_comments)
      /\ \A a, b \in 1..Len(comments) :
           FindingKey(comments[a]) = FindingKey(comments[b]) => a = b
      /\ \A k \in 1..Len(all_comments) : CountOfKey(comments, all_comments[k]) = 1

\* C12 witness: the extracted findings held line 15 twice and line 16 once,
\* and two findings of db.py:9 whose issues differ after their 50th character;
\* the result holds the first finding of line 15, the one of line 16 and the
\* first of db.py:9.
C12_Witness ==
    /\ pipeline_pc = "done"
    /\ all_comments =
         <<Finding("app.py", 15, "low", "SQL injection", "logic"),
           Finding("app.py", 16, "info", "Bad name", "readability"),
           Finding("app.py", 15, "critical", "SQL injection", "security"),
           Finding("db.py", 9, "error", IssueInQuery, "security"),
           Finding("db.py", 9, "high", IssueInLookup, "security")>>
    /\ comments =
         <<Finding("app.py", 15, "low", "SQL injection", "logic"),
           Finding("app.py", 16, "info", "Bad name", "readability"),
           Finding("db.py", 9, "error", IssueInQuery, "security")>>

\* C13 (as claimed): the run raises only when rendering fails. For a malformed
\* structured diff it raises before a task is submitted; when the rendering
\* succeeds, no later step makes it raise.
C13_OnlyRenderingFails ==
    IF RenderContext(structured_diff).exc # ""
    THEN pipeline_pc \in {"render", "raised"} /\ Submitted = 0
    ELSE pipeline_pc # "raised"

\* The lines of ls that start with "+++ ", in order.
RECURSIVE NewFileLines(_)
NewFileLines(ls) ==
    IF Len(ls) = 0 THEN <<>>
    ELSE IF StartsWith(Head(ls), "+++ ")
         THEN <<Head(ls)>> \o NewFileLines(Tail(ls))
         ELSE NewFileLines(Tail(ls))

\* C14 (as claimed): the returned list has one entry per "+++ " line, in the
\* order of these lines, each with the path its line gives, also for a file
\* without changes and for a path that was seen before.
C14_OneEntryPerMarker ==
    parser_pc = "done" =>
      /\ Len(file_diffs) = Len(NewFileLines(lines))
      /\ \A f \in 1..Len(file_diffs) :
           file_diffs[f].file = FilePathOf(NewFileLines(lines)[f])

\* The content, now, of the list the earlier call returned.
EarlierResultNow ==
    IF Get(earlier).same_list THEN file_diffs ELSE Get(earlier).result

\* C15: the parser keeps no state across calls. A call that returns for the
\* text of an earlier call returns a list equal to the one the earlier call
\* returned, whatever was parsed before and between the two, and the list the
\* earlier call returned still has the content it was returned with.
C15_NoStateAcrossCalls ==
    ~IsNone(earlier) =>
      /\ (parser_pc = "done" /\ lines = Get(earlier).text)
           => file_diffs = Get(earlier).result
      /\ EarlierResultNow = Get(earlier).result

\* C15 witness: a call returned a file with an addition for a text that an
\* earlier call had been given, and both results are that file.
C15_Witness ==
    /\ ~IsNone(earlier)
    /\ parser_pc = "done"
    /\ lines = <<"+++ b/x", "@@ -9 +1 @@ f", "+a">>
    /\ Get(earlier).text = lines
    /\ Get(earlier).result =
         <<FileDiff("x", <<LineChange("addition", Some(1), "a")>>)>>
    /\ file_diffs = Get(earlier).result

\* ------------------------------------------------------------------------
\* Claims on the rendered context
\* ------------------------------------------------------------------------

\* The rendering is just over: diff_context holds the text the tasks will be
\* given.
Rendered == pipeline_pc = "submit" /\ Submitted = 0

\* The lines of the rendered context.
ContextLines == SplitOn(diff_context, "\n")

\* A line of the rendered context that is the entry of a change.
IsEntryLine(text) == StartsWith(text, "  Line ")

\* The text between "Line " and the blank that follows it.
EntryLineNo(text) == SubSeq(text, 8, 7 + WordLen(DropFirst(text, 7)))

\* The entries the changes of a file give: one per addition and one per
\* deletion, in change order, none for a context line; L is the line number,
\* and None for a change without one.
RECURSIVE EntriesOf(_)
EntriesOf(changes) ==
    IF Len(changes) = 0 THEN <<>>
    ELSE LET c == Head(changes)
             L == IF IsNone(c.line) THEN "None" ELSE IntToStr(Get(c.line))
         IN  (IF c.type = "addition" THEN <<"  Line " \o L \o " (+): " \o c.content>>
              ELSE IF c.type = "deletion"
                   THEN <<"  Line " \o L \o " (-): " \o c.content>>
              ELSE <<>>)
             \o EntriesOf(Tail(changes))

\* For each file, in order: its path, its entries, and an empty line.
RECURSIVE FileBlocks(_)
FileBlocks(files) ==
    IF Len(files) = 0 THEN <<>>
    ELSE <<"File: " \o Head(files).file, "Changes:">>
         \o EntriesOf(Head(files).changes) \o <<"">> \o FileBlocks(Tail(files))

\* C16 (as claimed): every entry of the rendered context carries a line
\* number, the entries of deletions included.
C16_EntriesCarryLineNumber ==
    Rendered =>
      \A k \in 1..Len(ContextLines) :
        IsEntryLine(ContextLines[k]) => IsDigitRun(EntryLineNo(ContextLines[k]), FALSE)

\* C16 (amended): the rendered context is the heading, then for each file in
\* order its path and one entry per addition, "Line L (+): content", and per
\* deletion, "Line L (-): content", in change order, context lines giving no
\* entry; L is the line number of an addition and the text None for a
\* deletion, which has no line number.
C16_RenderedContext ==
    Rendered =>
      ContextLines =
        <<"Code changes to review:", "">> \o FileBlocks(structured_diff.files) \o <<"">>

\* C16 witness: two files were rendered, the first with a context line, a
\* deletion and two additions; the context given to the four tasks lists the
\* deletion of app.py before its additions and db.py after them.
C16_Witness ==
    /\ pipeline_pc = "collect"
    /\ Len(structured_diff.files) = 2
    /\ Len(ContextLines) = 13
    /\ ContextLines[4] = "Changes:"
    /\ ContextLines[5] = "  Line None (-): q(a)"
    /\ ContextLines[6] = "  Line 15 (+): q(b)"
    /\ ContextLines[8] = ""
    /\ ContextLines[9] = "File: db.py"
    /\ \A w \in Workers : task_context[w] = diff_context

\* ------------------------------------------------------------------------
\* Claims on the sequential run_review_pipeline
\* ------------------------------------------------------------------------

\* The JSON value is an object with a 'comments' array.
IsCommentsObject(value) ==
    /\ value.t = "dict"
    /\ "comments" \in DOMAIN value.v
    /\ value.v.comments.t = "list"

\* The call is over for a crew output: it returned, or raised while parsing.
SeqOver == seq_pc = "done" \/ (seq_pc = "raised" /\ seq_exc # "Exception")

\* C17 (as claimed): for every crew output that does not parse into an object
\* with a 'comments' array, the call returns {"comments": []} and does not
\* raise.
C17_DegradesToNoComments ==
    (SeqOver /\ ~IsCommentsObject(JsonLoads(JsonStrOf(result_str))))
    => /\ seq_pc = "done"
       /\ Get(seq_comments).t = "list"
       /\ Len(Get(seq_comments).v) = 0

\* C18: when the crew output is a fenced block, alone or inside other text,
\* that holds an object with a 'comments' array, or is such an object and
\* nothing else, the call returns that array, element for element.
C18_CommentsReturnedAsGiven ==
    \A b \in SeqBodies :
      (/\ SeqOver
       /\ result_str \in {Bare(b), Fenced(b), FencedInProse(b)}
       /\ IsCommentsObject(JsonLoads(b)))
      => /\ seq_pc = "done"
         /\ Get(seq_comments).t = "list"
         /\ Get(seq_comments).v = JsonLoads(b).v.comments.v

\* C18 witness: the output held, inside other text, a fenced object whose
\* 'comments' has two findings of one file, line and issue; both were
\* returned, in their order.
C18_Witness ==
    /\ seq_pc = "done"
    /\ result_str = FencedInProse(TextDuplicateComments)
    /\ seq_comments =
         Some(JList(<<Finding("app.py", 15, "low", "SQL injection", "logic"),
                      Finding("app.py", 15, "critical", "SQL injection",
                              "security")>>))

\* ------------------------------------------------------------------------
\* Claims on fetch_pr_diff
\* ------------------------------------------------------------------------

\* The classes of the exceptions of httpx.
HttpxClasses ==
    {"ConnectTimeout", "ReadTimeout", "ConnectError", "InvalidURL",
     "HTTPStatusError", "TimeoutException", "TransportError", "RequestError",
     "HTTPError"}

\* fetch_pr_diff is over and raised the error cls.
FetchRaised(cls) == fetch_pc = "done" /\ Get(fetch_result).exc = cls

\* The response has an error status.
FailedResponse == ~IsNone(response) /\ Get(response).status_code >= 400

\* The body of the response mentions a rate limit, in any case of the letters.
MentionsRateLimit ==
    \E k \in 1..Len(Get(response).text) :
      k + 9 <= Len(Get(response).text)
        /\ Lower(SubSeq(Get(response).text, k, k + 9)) = "rate limit"

\* The mapping of failed responses and of timeouts and connection failures
\* to domain errors.
FailuresMapped ==
    fetch_pc = "done" =>
      /\ FailedResponse =>
           FetchRaised(CASE Get(response).status_code = 404 -> "PRNotFoundError"
                         [] Get(response).status_code = 401 -> "InvalidTokenError"
                         [] Get(response).status_code = 403 ->
                              IF MentionsRateLimit THEN "RateLimitError"
                              ELSE "InvalidTokenError"
                         [] OTHER -> "GitHubAPIError")
      /\ fetch_exc \in {"ConnectTimeout", "ReadTimeout", "ConnectError"}
           => FetchRaised("NetworkError")

\* C19 (as claimed): every failed response, timeout and connection failure
\* gives its domain error, and no exception of httpx leaves fetch_pr_diff.
C19_FailuresBecomeDomainErrors ==
    /\ FailuresMapped
    /\ fetch_pc = "done" => Get(fetch_result).exc \notin HttpxClasses

\* C20: on a response with a success status, an empty or whitespace-only
\* body raises EmptyPRError; any other body with a binary-file marker raises
\* BinaryDiffError; every other body is returned as it is.
C20_SuccessfulResponse ==
    (fetch_pc = "done" /\ ~IsNone(response) /\ Get(response).status_code < 400) =>
      LET text == Get(response).text IN
      IF \A k \in 1..Len(text) : CharAt(text, k) \in {" ", "\t", "\n", "\r", "\f"}
      THEN FetchRaised("EmptyPRError")
      ELSE IF \E k \in 1..Len(text) :
                \/ (k + 11 <= Len(text) /\ SubSeq(text, k, k + 11) = "Binary files")
                \/ (k + 15 <= Len(text) /\ SubSeq(text, k, k + 15) = "GIT binary patch")
           THEN FetchRaised("BinaryDiffError")
           ELSE /\ Get(fetch_result).exc = ""
                /\ Get(fetch_result).val = text

\* C20 witness: a whitespace-only body of a 200 response raised EmptyPRError.
C20_Witness ==
    /\ fetch_pc = "done"
    /\ response = Some(Response(200, BodyBlank))
    /\ Get(fetch_result).exc = "EmptyPRError"

\* ------------------------------------------------------------------------
\* Claims on the steps of parse_unified_diff
\* ------------------------------------------------------------------------

\* The step is an iteration of the loop: it read a line and moved on.
ReadsLine == parser_pc = "loop" /\ i' = i + 1

\* The line the iteration read.
StepLine == lines'[i + 1]

\* A file is open and the cursor is known.
InHunk == ~IsNone(current_file) /\ ~IsNone(new_line_no)

\* The changes of the open file before and after the step.
ChangesBefore == Get(current_file).changes

ChangesAfter == Get(current_file').changes

\* The step appended exactly one change, of the given type and content, to the
\* open file and touched nothing else of it or of the output.
AppendsOne(type, content) ==
    /\ ~IsNone(current_file')
    /\ Get(current_file').file = Get(current_file).file
    /\ Len(ChangesAfter) = Len(ChangesBefore) + 1
    /\ SubSeq(ChangesAfter, 1, Len(ChangesBefore)) = ChangesBefore
    /\ ChangesAfter[Len(ChangesAfter)].type = type
    /\ ChangesAfter[Len(ChangesAfter)].content = content
    /\ file_diffs' = file_diffs

\* C21: while a file is open and the cursor is known, a non-empty line that
\* is no file boundary, no "+++ " line and no hunk header is classified by
\* its first character: "+" appends an addition, "-" a deletion, a space or a
\* tab a context line, each with the line without its first character as
\* content, at the end of the changes recorded so far.
C21_ClassifiedByFirstCharacter ==
    [][(ReadsLine /\ InHunk /\ StepLine # "" /\ ~IsMarkerLine(StepLine)) =>
         LET first == SubSeq(StepLine, 1, 1)
             rest == IF Len(StepLine) = 1 THEN ""
                     ELSE SubSeq(StepLine, 2, Len(StepLine))
         IN  /\ first = "+" => AppendsOne("addition", rest)
             /\ first = "-" => AppendsOne("deletion", rest)
             /\ first \in {" ", "\t"} => AppendsOne("context", rest)]_vars

\* C21 witness: an addition, a deletion and a context line led by a tab were
\* read in one hunk and are recorded in that order, each without its first
\* character.
C21_Witness ==
    /\ parser_pc = "done"
    /\ lines = <<"+++ b/x", "@@ -1,2 +3,4 @@", "+a", "-b", "\tc">>
    /\ Len(file_diffs) = 1
    /\ file_diffs[1].changes =
         <<LineChange("addition", Some(3), "a"),
           LineChange("deletion", None, "b"),
           LineChange("context", Some(4), "c")>>

\* The hunk headers of the texts that do not parse: one with a start that is
\* no integer, one without a range token that starts with "+".
FailingHeaders == {"@@ -1 +x @@", "@@ -1 @@"}

\* The hunk headers of the texts that parse, with the start each declares.
DeclaredStart ==
    [h \in {"@@ -1,2 +3,4 @@", "@@ -9 +1 @@ f"} |->
       IF h = "@@ -1,2 +3,4 @@" THEN 3 ELSE 1]

\* C22: a hunk header that fails to parse, read while a file is open, sets
\* the cursor to unknown and leaves the file open with the changes it has;
\* while the cursor is unknown no line is recorded for the file; a header
\* that parses sets the cursor to the start it declares, where recording
\* resumes.
C22_FailedHeaderSuspendsRecording ==
    [][(ReadsLine /\ ~IsNone(current_file)) =>
         /\ StepLine \in FailingHeaders =>
              /\ IsNone(new_line_no')
              /\ current_file' = current_file
              /\ file_diffs' = file_diffs
         /\ (IsNone(new_line_no) /\ ~IsNone(current_file')
               /\ ~StartsWith(StepLine, "+++ "))
              => current_file' = current_file
         /\ StepLine \in DOMAIN DeclaredStart =>
              /\ new_line_no' = Some(DeclaredStart[StepLine])
              /\ current_file' = current_file]_vars

\* C22 witness: after a header that does not parse an added line was read and
\* not recorded; after the next header, with start 1, the added line was
\* recorded at line 1.
C22_Witness ==
    /\ parser_pc = "done"
    /\ lines = <<"+++ b/x", "@@ -1 +x @@", "+a", "@@ -9 +1 @@ f", "+a">>
    /\ file_diffs = <<FileDiff("x", <<LineChange("addition", Some(1), "a")>>)>>

\* The line values of the addition and context entries of changes, in order.
RECURSIVE NewSideLines(_)
NewSideLines(changes) ==
    IF Len(changes) = 0 THEN <<>>
    ELSE IF Head(changes).type \in {"addition", "context"}
         THEN <<Get(Head(changes).line)>> \o NewSideLines(Tail(changes))
    ELSE NewSideLines(Tail(changes))

\* C23: for every file returned, the line values of its addition and context
\* entries, taken in order, are non-decreasing over the whole file, across
\* hunks too.
C23_LinesNonDecreasing ==
    parser_pc = "done" =>
      \A f \in 1..Len(file_diffs) :
        LET ns == NewSideLines(file_diffs[f].changes) IN
        \A k \in 1..(Len(ns) - 1) : ns[k] <= ns[k + 1]

\* C24: every line value recorded on an addition or context entry is at
\* least 1, whatever start the hunk headers declare.
C24_LinesPositive ==
    \A f \in 1..Len(AllFiles) :
      LET ns == NewSideLines(AllFiles[f].changes) IN
      \A k \in 1..Len(ns) : ns[k] >= 1

\* C25: a "diff --git " line appends the open file, if any, to the output and
\* leaves no open file and an unknown cursor; it opens no file, so until a
\* "+++ " line is read no line changes the output or opens a file.
C25_BoundaryClosesAndOpensNothing ==
    [][ReadsLine =>
         /\ StartsWith(StepLine, "diff --git ") =>
              /\ file_diffs' = IF IsNone(current_file) THEN file_diffs
                               ELSE file_diffs \o <<Get(current_file)>>
              /\ IsNone(current_file')
              /\ IsNone(new_line_no')
         /\ (IsNone(current_file) /\ ~StartsWith(StepLine, "+++ ")) =>
              /\ IsNone(current_file')
              /\ \/ file_diffs' = file_diffs
                 \/ StartsWith(StepLine, "diff --git ")]_vars

\* C25 witness: a file boundary closed the open file x; the header and the
\* added line after it were recorded nowhere.
C25_Witness ==
    /\ parser_pc = "done"
    /\ lines = <<"+++ b/x", "diff --git a/x b/x", "@@ -1,2 +3,4 @@", "+a">>
    /\ file_diffs = <<FileDiff("x", <<>>)>>

\* C26: inside a hunk a line whose first character is none of "+", "-",
\* space, tab, and anywhere an empty line, records nothing and leaves the
\* open file, its changes, the cursor and the output as they are.
C26_OtherLinesChangeNothing ==
    [][(/\ ReadsLine
        /\ \/ StepLine = ""
           \/ /\ InHunk
              /\ ~IsMarkerLine(StepLine)
              /\ SubSeq(StepLine, 1, 1) \notin {"+", "-", " ", "\t"})
       => /\ current_file' = current_file
          /\ new_line_no' = new_line_no
          /\ file_diffs' = file_diffs]_vars

\* C26 witness: the line after the "No newline" line was recorded at the
\* start of the hunk, its number not shifted.
C26_Witness ==
    /\ parser_pc = "done"
    /\ lines = <<"+++ b/x", "@@ -1,2 +3,4 @@",
                 "\\ No newline at end of file", "+a">>
    /\ file_diffs = <<FileDiff("x", <<LineChange("addition", Some(3), "a")>>)>>

\* path is text with exactly one leading "a/" or "b/" removed when text has
\* one, and text itself otherwise.
OnePrefixRemoved(text, path) ==
    IF StartsWith(text, "a/") THEN text = "a/" \o path
    ELSE IF StartsWith(text, "b/") THEN text = "b/" \o path
    ELSE path = text

\* C27 (as claimed): the path recorded for a "+++ " line other than the one
\* of a deleted file is the text after "+++ " with exactly one leading "a/"
\* or "b/" removed when present, and that text verbatim otherwise.
C27_PathFromRawText ==
    LET markers == ClosingMarkers(lines, <<>>) IN
    (parser_pc = "done" /\ Len(file_diffs) = Len(markers)) =>
      \A f \in 1..Len(markers) :
        DropFirst(markers[f], 4) # "/dev/null"
          => OnePrefixRemoved(DropFirst(markers[f], 4), file_diffs[f].file)

\* C27 (amended): the path recorded for a "+++ " line is taken from the text
\* after "+++ " with its surrounding whitespace removed: "<deleted-file>"
\* when that is exactly /dev/null, else that text with exactly one leading
\* "a/" or "b/" removed when present, and verbatim otherwise.
C27_PathFromStrippedText ==
    LET markers == ClosingMarkers(lines, <<>>) IN
    parser_pc = "done" =>
      /\ Len(file_diffs) = Len(markers)
      /\ \A f \in 1..Len(markers) :
           IF Target(markers[f]) = "/dev/null"
           THEN file_diffs[f].file = "<deleted-file>"
           ELSE OnePrefixRemoved(Target(markers[f]), file_diffs[f].file)

\* C27 witness: the line "+++  b/b/x ", with a space before and after the
\* path, was recorded as the file b/x.
C27_Witness ==
    /\ parser_pc = "done"
    /\ lines = <<"+++  b/b/x ", "@@ -9 +1 @@ f", "+a">>
    /\ file_diffs = <<FileDiff("b/x", <<LineChange("addition", Some(1), "a")>>)>>

\* The first 50 characters of the issue of a finding.
IssueHead(f) ==
    IF Len(f.v.issue.v) <= 50 THEN f.v.issue.v ELSE SubSeq(f.v.issue.v, 1, 50)

\* The finding has a line number.
HasLine(f) == "line" \in DOMAIN f.v /\ f.v.line.t = "int"

\* Two findings with a line number, of the same file and line.
SamePlace(f, g) ==
    /\ HasLine(f) /\ HasLine(g)
    /\ f.v.file.v = g.v.file.v
    /\ f.v.line.v = g.v.line.v

\* The number of findings kept at the place of f whose issue starts as the
\* issue of f does.
KeptLike(f) ==
    Cardinality({c \in 1..Len(comments) :
                   SamePlace(comments[c], f) /\ IssueHead(comments[c]) = IssueHead(f)})

\* The first extracted finding at the place of f whose issue starts as the
\* issue of f does.
FirstLike(f) ==
    all_comments[CHOOSE k \in 1..Len(all_comments) :
        /\ SamePlace(all_comments[k], f)
        /\ IssueHead(all_comments[k]) = IssueHead(f)
        /\ \A j \in 1..(k - 1) :
             ~(SamePlace(all_comments[j], f)
                 /\ IssueHead(all_comments[j]) = IssueHead(f))]

\* C28: of two extracted findings with the same file and line, when their
\* issues agree on the first 50 characters, whatever follows, one finding is
\* kept for both, the first extracted with that beginning; when their issues
\* differ within the first 50 characters a finding is kept for each.
C28_KeyUsesFirstFiftyCharacters ==
    pipeline_pc = "done" =>
      \A a, b \in 1..Len(all_comments) :
        LET fa == all_comments[a]
            fb == all_comments[b]
        IN  (a < b /\ SamePlace(fa, fb)) =>
              /\ KeptLike(fa) = 1
              /\ KeptLike(fb) = 1
              /\ \E c \in 1..Len(comments) : comments[c] = FirstLike(fa)
              /\ \E d \in 1..Len(comments) : comments[d] = FirstLike(fb)
              /\ IssueHead(fa) = IssueHead(fb) <=> FirstLike(fa) = FirstLike(fb)

\* C28 witness: of four findings of db.py:9 the one whose issue differs from
\* the first in the 50th character was kept, the one whose issue differs
\* from it after the 50th character was dropped.
C28_Witness ==
    /\ pipeline_pc = "done"
    /\ all_comments =
         <<Finding("db.py", 9, "error", IssueInQuery, "security"),
           Finding("db.py", 9, "high", IssueInStatements, "logic"),
           Finding("db.py", 9, "error", IssueInQuery, "security"),
           Finding("db.py", 9, "high", IssueInLookup, "security")>>
    /\ comments =
         <<Finding("db.py", 9, "error", IssueInQuery, "security"),
           Finding("db.py", 9, "high", IssueInStatements, "logic")>>

\* The finding has no line number: the key is missing or its value is null.
LacksLine(f) == "line" \notin DOMAIN f.v \/ f.v.line.t = "NoneType"

\* Two findings without a line number, of the same file, whose issues agree
\* on the first 50 characters.
SameFileLevel(f, g) ==
    /\ LacksLine(f) /\ LacksLine(g)
    /\ f.v.file.v = g.v.file.v
    /\ IssueHead(f) = IssueHead(g)

\* C29: two extracted findings of the same file that both lack a line, the
\* field omitted or null, and agree on the first 50 characters of the issue
\* are deduplicated: one finding is kept for them.
C29_NoLineSharesOneDefault ==
    pipeline_pc = "done" =>
      \A a, b \in 1..Len(all_comments) :
        (a < b /\ SameFileLevel(all_comments[a], all_comments[b])) =>
          Cardinality({c \in 1..Len(comments) :
                         SameFileLevel(comments[c], all_comments[a])}) = 1

\* The text the findings of an output are read from: the content of its
\* first fenced block labelled json when it has one, the whole output when it
\* has none.
FindingsText(out) ==
    LET open == FindFrom(out, Fence \o "json\n", 1) IN
    IF open = 0 THEN out
    ELSE LET start == open + Len(Fence) + 5
             close == FindFrom(out, "\n" \o Fence, start)
         IN  IF close = 0 THEN out ELSE SubSeq(out, start, close - 1)

\* What an output contributes: the elements of a parsed list, the entries of
\* the 'comments' of a parsed object, nothing for any other outcome.
Contribution(out) ==
    LET value == JsonLoads(FindingsText(out)) IN
    IF value.t = "list" THEN value.v
    ELSE IF value.t = "dict" /\ "comments" \in DOMAIN value.v
              /\ value.v.comments.t = "list"
         THEN value.v.comments.v
    ELSE <<>>

RECURSIVE Contributions(_)
Contributions(results) ==
    IF Len(results) = 0 THEN <<>>
    ELSE Contribution(Head(results)[2]) \o Contributions(Tail(results))

\* C30: once the outputs are collected the findings extracted are, output by
\* output, the elements of the list or the 'comments' entries of the object
\* parsed from the fenced json block when the output has one and from the
\* whole output when it has none, and nothing for any other outcome.
C30_ExtractionOrder ==
    (pipeline_pc \in {"dedup", "done", "raised"} /\ Submitted > 0)
      => all_comments = Contributions(agent_results)

\* The task of w was dispatched.
Dispatched(w) == futures[w].status # "unsubmitted"

\* C31: a worker is dispatched once, no step dispatches two workers or
\* dispatches a worker again, and a task is started only from the queue; once
\* the dispatch is over all four workers are dispatched; every dispatched
\* worker was given the rendered context; and after it is built the rendered
\* context is never changed, whatever the workers do and in whatever order
\* they end.
C31_OneDispatchSameContext ==
    [][/\ \A w \in Workers :
            /\ Dispatched(w)' => task_context'[w] = diff_context'
            /\ Dispatched(w) => Dispatched(w)'
            /\ futures'[w].status = "queued"
                 => futures[w].status \in {"unsubmitted", "queued"}
            /\ (futures'[w].status = "running" /\ futures[w].status # "running")
                 => futures[w].status = "queued"
       /\ pipeline_pc' \in {"collect", "extract", "dedup", "done"}
            => \A u \in Workers : Dispatched(u)'
       /\ Cardinality({v \in Workers : Dispatched(v)' /\ ~Dispatched(v)}) <= 1
       /\ pipeline_pc # "render" => diff_context' = diff_context]_vars

\* C31 witness: the run is over, a task ended before one dispatched earlier,
\* and each of the four workers holds the one rendered context.
C31_Witness ==
    /\ pipeline_pc = "done"
    /\ overtaken
    /\ Len(diff_context) > Len("Code changes to review:\n\n")
    /\ \A w \in Workers : futures[w].status = "returned" /\ task_context[w] = diff_context

\* The workers whose invocation holds a thread of the pool.
Occupying == {w \in Workers : futures[w].status \in {"running", "hung"}}

\* C32: the invocations in flight never outnumber the pool size, and a
\* dispatched invocation that has not started never has to wait for another
\* one to finish: a thread of the pool is free for it, so all four can be in
\* flight at once.
C32_PoolHoldsAllWorkers ==
    /\ Cardinality(Occupying) <= max_workers
    /\ \A w \in Workers :
         futures[w].status = "queued" => Cardinality(Occupying) < max_workers

\* C32 witness: the four invocations are in flight at the same time, none
\* has finished.
C32_Witness ==
    /\ pipeline_pc = "collect"
    /\ \A w \in Workers : futures[w].status = "running"

\* The index of the last "+++ " line of ls, 0 when it has none.
RECURSIVE LastNewFileLine(_)
LastNewFileLine(ls) ==
    IF Len(ls) = 0 THEN 0
    ELSE IF StartsWith(ls[Len(ls)], "+++ ") THEN Len(ls)
    ELSE LastNewFileLine(SubSeq(ls, 1, Len(ls) - 1))

\* C34: the open file has no LineChange as long as no hunk header that
\* parses was read after the "+++ " line that opened it, also when the file
\* before it was not closed by a "diff --git " line.
C34_NoChangeBeforeOwnHeader ==
    LET opened == LastNewFileLine(lines) IN
    (/\ parser_pc = "loop"
     /\ ~IsNone(current_file)
     /\ \A j \in (opened + 1)..Len(lines) :
          ~(StartsWith(lines[j], "@@ ") /\ HunkStart(lines[j]).exc = ""))
    => Get(current_file).changes = <<>>

\* The severity levels of a review comment.
SeverityLevels ==
    {"critical", "error", "warning", "high", "moderate", "medium", "low", "info"}

\* C33: every finding of the result returned has a severity of the closed
\* set of levels, whatever the outputs of the workers hold.
C33_SeverityInClosedSet ==
    pipeline_pc = "done" =>
      \A c \in 1..Len(comments) :
        /\ "severity" \in DOMAIN comments[c].v
        /\ comments[c].v.severity.t = "str"
        /\ comments[c].v.severity.v \in SeverityLevels

\* sub is a subsequence of seq: its elements, field for field, at positions
\* of seq that increase.
RECURSIVE IsSubsequence(_, _)
IsSubsequence(sub, seq) ==
    IF Len(sub) = 0 THEN TRUE
    ELSE IF Len(seq) = 0 THEN FALSE
    ELSE IF Head(sub) = Head(seq) THEN IsSubsequence(Tail(sub), Tail(seq))
    ELSE IsSubsequence(sub, Tail(seq))

\* C35: the result is a subsequence of the findings extracted from the
\* outputs of the workers, concatenated in the order of the workers: every
\* finding of it is, field for field, a finding of some worker's output, and
\* it is no longer than their total number.
C35_ResultIsSubsequence ==
    pipeline_pc = "done" =>
      /\ IsSubsequence(comments, FindingsInOrder(Len(WorkerOrder)))
      /\ Len(comments) <= Len(FindingsInOrder(Len(WorkerOrder)))
      /\ \A c \in 1..Len(comments) :
           \E w \in Workers : \E k \in 1..Len(FindingsOf(w)) :
             comments[c] = FindingsOf(w)[k]

\* C35 witness: of the five findings of three workers three are returned, in
\* their order, each as its worker gave it.
C35_Witness ==
    /\ pipeline_pc = "done"
    /\ futures["readability"].out = TextFenced
    /\ futures["logic"].out = TextInjection
    /\ futures["security"].out = TextLongIssues
    /\ Len(all_comments) = 5
    /\ comments =
         <<Finding("app.py", 15, "low", "SQL injection", "logic"),
           Finding("app.py", 16, "info", "Bad name", "readability"),
           Finding("db.py", 9, "error", IssueInQuery, "security")>>

====
